---------------------------- MODULE Spec2Model ----------------------------
(***************************************************************************)
(* Stand lifecycle and discovery of genesis_devtools on a libvirt host.    *)
(*                                                                         *)
(* The hypervisor (domains, networks, files of the storage pool) is the    *)
(* only persistent state.  The driver operations create_stand,             *)
(* delete_stand and list_stands are translated from                        *)
(* infra/driver/libvirt.py, the facade commands they run from              *)
(* infra/libvirt/libvirt.py and the value types from stand/models.py.      *)
(*                                                                         *)
(* Conventions.  A Python Optional is a sequence of length 0 (None) or 1.  *)
(* A text is a sequence of one-character strings only where the code       *)
(* formats or parses it (numbers, addresses); names stay strings.  A file  *)
(* path is [dir, file] with file a sequence of name parts, so that         *)
(* basename and endswith are computed, not assumed.                        *)
(***************************************************************************)
EXTENDS Integers, Sequences, FiniteSets, TLC

\* ------------------------------------------------------------------------
\* Bounds of the model
\* ------------------------------------------------------------------------

\* number of disks of the baremetal node that is given disks
MaxDisks == 2

\* ------------------------------------------------------------------------
\* Values of the Python runtime
\* ------------------------------------------------------------------------

None == << >>

Some(v) == << v >>

Digits == << "0", "1", "2", "3", "4", "5", "6", "7", "8", "9" >>

RECURSIVE IntToStr(_)
\* str(n) of a non-negative int: its decimal digits
IntToStr(n) ==
    IF n < 10 THEN << Digits[n + 1] >>
    ELSE IntToStr(n \div 10) \o << Digits[(n % 10) + 1] >>

DigitValue(c) == (CHOOSE i \in 1..10 : Digits[i] = c) - 1

RECURSIVE StrToInt(_)
\* int(s) of a string of decimal digits
StrToInt(s) ==
    IF Len(s) = 1 THEN DigitValue(s[1])
    ELSE 10 * StrToInt(SubSeq(s, 1, Len(s) - 1)) + DigitValue(s[Len(s)])

RECURSIVE Pow2(_)
Pow2(k) == IF k = 0 THEN 1 ELSE 2 * Pow2(k - 1)

\* ------------------------------------------------------------------------
\* ipaddress.IPv4Network, as the code uses it
\* ------------------------------------------------------------------------

\* an IPv4 address: the integer of its four octets
Ip(a, b, c, d) == ((a * 256 + b) * 256 + c) * 256 + d

Octets(ip) ==
    << ip \div 16777216, (ip \div 65536) % 256, (ip \div 256) % 256, ip % 256 >>

\* str(address): dotted quad, kept as its four decimal numbers
IpToStr(ip) ==
    LET o == Octets(ip)
    IN  << IntToStr(o[1]), IntToStr(o[2]), IntToStr(o[3]), IntToStr(o[4]) >>

StrToIp(s) ==
    Ip(StrToInt(s[1]), StrToInt(s[2]), StrToInt(s[3]), StrToInt(s[4]))

\* number of addresses of a network
NumAddresses(cidr) == Pow2(32 - cidr.prefix)

BroadcastAddress(cidr) == cidr.addr + NumAddresses(cidr) - 1

\* one octet of the netmask of a prefix length: its leading bits set
MaskOctet(prefix, k) ==
    LET bits == IF prefix - 8 * (k - 1) < 0 THEN 0
                ELSE IF prefix - 8 * (k - 1) > 8 THEN 8
                ELSE prefix - 8 * (k - 1)
    IN  256 - Pow2(8 - bits)

\* str(cidr.netmask)
NetmaskStr(cidr) ==
    [k \in 1..4 |-> IntToStr(MaskOctet(cidr.prefix, k))]

\* cidr[n] for n >= 0: None stands for IndexError('address out of range')
CidrGetItem(cidr, n) ==
    IF cidr.addr + n > BroadcastAddress(cidr) THEN None
    ELSE Some(cidr.addr + n)

\* str(cidr): "a.b.c.d/p"
CidrToStr(cidr) == [ip |-> IpToStr(cidr.addr), prefix |-> IntToStr(cidr.prefix)]

\* ipaddress.IPv4Network(text)
StrToCidr(s) == [addr |-> StrToIp(s.ip), prefix |-> StrToInt(s.prefix)]

\* ------------------------------------------------------------------------
\* stand/models.py
\* ------------------------------------------------------------------------

\* Network.dummy()
Dummy ==
    [name |-> "dummy", cidr |-> [addr |-> Ip(0, 0, 0, 0), prefix |-> 24],
     dhcp |-> FALSE, managed_network |-> FALSE]

\* Network.is_dummy
is_dummy(network) == network.name = "dummy"

AllImagesNone(bootstraps) ==
    \A i \in 1..Len(bootstraps) : bootstraps[i].image = None

\* is_valid() with any() written where the code has all()
is_valid_AnyNone(stand) ==
    IF is_dummy(stand.network) \/ Len(stand.bootstraps) = 0 THEN FALSE
    ELSE IF \E i \in 1..Len(stand.bootstraps) :
                stand.bootstraps[i].image = None
    THEN FALSE
    ELSE TRUE

\* an is_valid() that also wants an image or a disk on every baremetal
is_valid_WithBaremetals(stand) ==
    IF is_dummy(stand.network) \/ Len(stand.bootstraps) = 0 THEN FALSE
    ELSE IF AllImagesNone(stand.bootstraps) THEN FALSE
    ELSE \A i \in 1..Len(stand.baremetals) :
             stand.baremetals[i].image # None
                 \/ Len(stand.baremetals[i].disks) > 0

\* Stand.is_valid()
is_valid(stand) ==
    IF is_dummy(stand.network) \/ Len(stand.bootstraps) = 0 THEN FALSE
    ELSE IF AllImagesNone(stand.bootstraps) THEN FALSE
    ELSE TRUE

\* Stand.empty_stand(name): no nodes, the dummy network
empty_stand(name) ==
    [name |-> name, network |-> Dummy, bootstraps |-> << >>,
     baremetals |-> << >>]

\* Bootstrap.from_node(node): the same attributes, role bootstrap
from_node(node) == node

\* ------------------------------------------------------------------------
\* State
\* ------------------------------------------------------------------------

VARIABLES
    domains,    \* hypervisor: domain name -> [xml, active]
    nets,       \* hypervisor: network name -> [xml, active, autostart]
    files,      \* storage pool and disk files: path -> content
    pc,         \* "idle", or "done" when a driver call has returned
    op,         \* the driver operation that returned
    arg,        \* the stand it was given
    err,        \* the exception it raised, "none" when it returned
    calls,      \* the hypervisor commands it ran, in order
    ret,        \* what list_stands returned
    procs       \* the driver calls of concurrent processes, each with its
                \* position, its locals and its own err, calls and ret

vars == << domains, nets, files, pc, op, arg, err, calls, ret, procs >>

\* constants.LIBVIRT_DEF_POOL_PATH
LIBVIRT_DEF_POOL_PATH == "/var/lib/libvirt/images"

\* infra/libvirt/constants.py
GENESIS_META_NODE_TYPE_TAG == "genesis:node_type"
GENESIS_META_STAND_TAG == "genesis:stand"
GENESIS_META_CPU_TAG == "genesis:vcpu"
GENESIS_META_MEM_TAG == "genesis:mem"
GENESIS_META_IMAGE_TAG == "genesis:image"
GENESIS_META_NET_TAG == "genesis:network"

MetaTags ==
    { GENESIS_META_NODE_TYPE_TAG, GENESIS_META_STAND_TAG,
      GENESIS_META_CPU_TAG, GENESIS_META_MEM_TAG, GENESIS_META_IMAGE_TAG,
      GENESIS_META_NET_TAG }

\* ------------------------------------------------------------------------
\* A running call: the hypervisor it acts on, the commands it has run and
\* the exception that ended it.  A step of a call that has raised does
\* nothing.
\* ------------------------------------------------------------------------

Running(m) == m.err = "none"

Raise(m, e) == IF Running(m) THEN [m EXCEPT !.err = e] ELSE m

\* subprocess.run / check_output of one command; rc is its exit status
Call(m, cmd, a) ==
    [m EXCEPT !.calls = Append(@, [cmd |-> cmd, arg |-> a, rc |-> 0])]

\* the command just run exits non-zero: check=True and check_output raise
\* CalledProcessError
Exit1(c) ==
    Raise([c EXCEPT !.calls[Len(c.calls)].rc = 1], "CalledProcessError")

\* the command just run is the one that fails for a reason of the host (no
\* space, no permission, libvirtd down): the fail-th command of the call,
\* none when fail is 0
Faulty(c) == c.fail = Len(c.calls)

\* the commands that change the hypervisor or its files when they succeed
Mutating ==
    { "net-define", "net-start", "net-autostart", "net-destroy",
      "net-undefine", "define", "start", "destroy", "undefine", "cp",
      "qemu-img", "rm" }

NetCommands ==
    { "net-define", "net-start", "net-autostart", "net-destroy",
      "net-undefine" }

\* the commands of a call, as a set of names
Commands(cs) == { cs[i].cmd : i \in 1..Len(cs) }

\* a function without one key
Without(f, k) == [x \in (DOMAIN f) \ {k} |-> f[x]]

\* a function with one key set
With(f, k, v) == [x \in (DOMAIN f) \cup {k} |-> IF x = k THEN v ELSE f[x]]

\* ------------------------------------------------------------------------
\* The hypervisor's commands (virsh, qemu-img, cp, rm), one operator per
\* command line the facade runs.  A command that exits non-zero raises
\* CalledProcessError in the caller (check=True, check_output).
\* ------------------------------------------------------------------------

\* sudo virsh net-define <file>: refused when the name is already defined
VirshNetDefine(m, name, xml) ==
    IF ~Running(m) THEN m
    ELSE LET c == Call(m, "net-define", name)
         IN  IF name \in DOMAIN c.nets \/ Faulty(c) THEN Exit1(c)
             ELSE [c EXCEPT !.nets =
                      With(@, name, [xml |-> xml, active |-> FALSE,
                                     autostart |-> FALSE])]

\* sudo virsh net-start <name>
VirshNetStart(m, name) ==
    IF ~Running(m) THEN m
    ELSE LET c == Call(m, "net-start", name)
         IN  IF name \notin DOMAIN c.nets \/ c.nets[name].active
                    \/ Faulty(c)
             THEN Exit1(c)
             ELSE [c EXCEPT !.nets[name].active = TRUE]

\* sudo virsh net-autostart <name>
VirshNetAutostart(m, name) ==
    IF ~Running(m) THEN m
    ELSE LET c == Call(m, "net-autostart", name)
         IN  IF name \notin DOMAIN c.nets \/ Faulty(c) THEN Exit1(c)
             ELSE [c EXCEPT !.nets[name].autostart = TRUE]

\* sudo virsh net-destroy <name>
VirshNetDestroy(m, name) ==
    IF ~Running(m) THEN m
    ELSE LET c == Call(m, "net-destroy", name)
         IN  IF name \notin DOMAIN c.nets \/ ~c.nets[name].active
             THEN Exit1(c)
             ELSE [c EXCEPT !.nets[name].active = FALSE]

\* sudo virsh net-undefine <name>
VirshNetUndefine(m, name) ==
    IF ~Running(m) THEN m
    ELSE LET c == Call(m, "net-undefine", name)
         IN  IF name \notin DOMAIN c.nets THEN Exit1(c)
             ELSE [c EXCEPT !.nets = Without(@, name)]

\* a virsh define that replaces the descriptor of a name already defined
VirshDefine_Redefines(m, name, xml) ==
    IF ~Running(m) THEN m
    ELSE LET c == Call(m, "define", xml)
         IN  IF Faulty(c) THEN Exit1(c)
             ELSE [c EXCEPT !.domains =
                      With(Without(@, name), name,
                           [xml |-> xml, active |-> FALSE])]

\* sudo virsh define <file>: refused when the name is already defined.  The
\* command is recorded with the descriptor written to the file
VirshDefine(m, name, xml) ==
    IF ~Running(m) THEN m
    ELSE LET c == Call(m, "define", xml)
         IN  IF name \in DOMAIN c.domains \/ Faulty(c) THEN Exit1(c)
             ELSE [c EXCEPT !.domains =
                      With(@, name, [xml |-> xml, active |-> FALSE])]

\* sudo virsh start <name>
VirshStart(m, name) ==
    IF ~Running(m) THEN m
    ELSE LET c == Call(m, "start", name)
         IN  IF name \notin DOMAIN c.domains \/ c.domains[name].active
                    \/ Faulty(c)
             THEN Exit1(c)
             ELSE [c EXCEPT !.domains[name].active = TRUE]

\* sudo virsh destroy <name>
VirshDestroy(m, name) ==
    IF ~Running(m) THEN m
    ELSE LET c == Call(m, "destroy", name)
         IN  IF name \notin DOMAIN c.domains \/ ~c.domains[name].active
             THEN Exit1(c)
             ELSE [c EXCEPT !.domains[name].active = FALSE]

\* sudo virsh undefine <name>
VirshUndefine(m, name) ==
    IF ~Running(m) THEN m
    ELSE LET c == Call(m, "undefine", name)
         IN  IF name \notin DOMAIN c.domains
             THEN Exit1(c)
             ELSE [c EXCEPT !.domains = Without(@, name)]

\* a dumpxml that stops the domain it dumps
VirshDumpxml_Stops(m, name) ==
    IF ~Running(m) THEN m
    ELSE LET c == Call(m, "dumpxml", name)
         IN  IF name \notin DOMAIN c.domains
             THEN Exit1(c)
             ELSE [c EXCEPT !.domains[name].active = FALSE]

\* sudo virsh dumpxml <name>: fails for a name that is not defined
VirshDumpxml(m, name) ==
    IF ~Running(m) THEN m
    ELSE LET c == Call(m, "dumpxml", name)
         IN  IF name \notin DOMAIN c.domains
             THEN Exit1(c)
             ELSE c

\* sudo rm -f <path>
RmForce(m, path) ==
    IF ~Running(m) THEN m
    ELSE [Call(m, "rm", path) EXCEPT !.files = Without(@, path)]

\* sudo cp <src> <dst>
Cp(m, src, dst) ==
    IF ~Running(m) THEN m
    ELSE LET c == Call(m, "cp", dst)
         IN  IF Faulty(c) THEN Exit1(c)
             ELSE [c EXCEPT !.files =
                      With(@, dst, [kind |-> "image", src |-> src,
                                    size |-> 0])]

\* sudo rm -f <dst>; sudo cp <src> <dst>
RmThenCp(m, src, dst) == Cp(RmForce(m, dst), src, dst)

\* sudo qemu-img create -f qcow2 <path> <size>G
QemuImgCreate(m, path, size) ==
    IF ~Running(m) THEN m
    ELSE LET c == Call(m, "qemu-img", path)
         IN  IF Faulty(c) THEN Exit1(c)
             ELSE [c EXCEPT !.files =
                      With(@, path, [kind |-> "empty", src |-> path,
                                     size |-> size])]

\* try: <command> except subprocess.CalledProcessError: pass
Caught(before, after) ==
    IF Running(before) /\ after.err = "CalledProcessError"
    THEN [after EXCEPT !.err = "none"]
    ELSE after

\* ------------------------------------------------------------------------
\* infra/libvirt/libvirt.py: the facade
\* ------------------------------------------------------------------------

\* list_domains(state="all"): sudo virsh list --all --name
list_domains(m) ==
    [m |-> Call(m, "list", "all"), val |-> DOMAIN m.domains]

\* list_domains(state="inactive")
list_inactive_domains(m) ==
    [m |-> Call(m, "list", "inactive"),
     val |-> { n \in DOMAIN m.domains : ~m.domains[n].active }]

\* is_active_domain(name)
is_active_domain(m, name) ==
    LET r == list_inactive_domains(m)
    IN  [m |-> r.m, val |-> name \notin r.val]

\* has_domain() that finds no domain
has_domain_Never(m, name) ==
    [m |-> list_domains(m).m, val |-> FALSE]

\* has_domain(name)
has_domain(m, name) ==
    LET r == list_domains(m)
    IN  [m |-> r.m, val |-> name \in r.val]

\* list_nets(): the names, as Python strings
list_nets(m) ==
    [m |-> Call(m, "net-list", "all"),
     val |-> { [type |-> "str", v |-> n] : n \in DOMAIN m.nets }]

\* Python's == between a value and a string of list_nets(): a value of
\* another class (the Network dataclass) equals no string
PyEq(x, s) == x.type = s.type /\ x.v = s.v

\* has_net(name): name in list_nets()
has_net(m, name) ==
    LET r == list_nets(m)
    IN  [m |-> r.m, val |-> \E s \in r.val : PyEq(name, s)]

nat_network_template(p) ==
    [name |-> p.name, forward |-> "nat", domain |-> p.name, ip |-> p.ip,
     netmask |-> p.netmask,
     dhcp |-> Some([start |-> p.range_start, end |-> p.range_end])]

nat_network_no_dhcp_template(p) ==
    [name |-> p.name, forward |-> "nat", domain |-> "network", ip |-> p.ip,
     netmask |-> p.netmask, dhcp |-> None]

\* the three commands of create_nat_network
DefineStartAutostart(m, name, network) ==
    VirshNetAutostart(VirshNetStart(VirshNetDefine(m, name, network), name),
                      name)

\* the descriptor create_nat_network writes to the file, None when one of
\* cidr[1], cidr[10], cidr[100] raises IndexError
NatNetworkXml(name, cidr, dhcp_enabled) ==
    LET ip == CidrGetItem(cidr, 1)
        range_start == CidrGetItem(cidr, 10)
        range_end == CidrGetItem(cidr, 100)
    IN  IF ip = None \/ range_start = None \/ range_end = None
        THEN None
        ELSE LET net_params ==
                     [name |-> name, netmask |-> NetmaskStr(cidr),
                      ip |-> IpToStr(ip[1]),
                      range_start |-> IpToStr(range_start[1]),
                      range_end |-> IpToStr(range_end[1])]
             IN  Some(IF dhcp_enabled THEN nat_network_template(net_params)
                      ELSE nat_network_no_dhcp_template(net_params))

\* create_nat_network(name, cidr, dhcp_enabled)
create_nat_network(m, name, cidr, dhcp_enabled) ==
    LET network == NatNetworkXml(name, cidr, dhcp_enabled)
    IN  IF ~Running(m) THEN m
        ELSE IF network = None THEN Raise(m, "IndexError")
        ELSE DefineStartAutostart(m, name, network[1])

\* destroy_net(name): both commands run, a failure of either is swallowed
destroy_net(m, name) ==
    LET m1 == Caught(m, VirshNetDestroy(m, name))
    IN  Caught(m1, VirshNetUndefine(m1, name))

\* uuid.uuid4(): an identifier no domain and no file of the host carries.
\* The code never looks into it, so the choice among the unused ones is
\* fixed: the one kept for the name when it is unused, else the first
\* unused one
Uuids == << "u1", "u2", "u3", "u4", "u5", "u6" >>

UuidNames == << "n1", "n2", "n3" >>

UsedUuids(m) ==
    { m.domains[n].xml.uuid : n \in DOMAIN m.domains }
        \cup { f.file[1] : f \in DOMAIN m.files }

FirstUnused(used) ==
    Uuids[CHOOSE i \in 1..Len(Uuids) :
              /\ Uuids[i] \notin used
              /\ \A j \in 1..(i - 1) : Uuids[j] \in used]

FreshUuid(m, name) ==
    LET own == { Uuids[i] : i \in { j \in 1..Len(UuidNames) :
                                        UuidNames[j] = name } }
    IN  IF own # {} /\ own \cap UsedUuids(m) = {}
        THEN CHOOSE u \in own : TRUE
        ELSE FirstUnused(UsedUuids(m) \cup
                         { Uuids[i] : i \in 1..Len(UuidNames) })

\* os.path.basename(path)
basename(path) == path.file

\* os.path.join(pool, name)
PoolPath(pool, name) == [dir |-> pool, file |-> name]

\* str.endswith
EndsWith(name, suffix) == Len(name) > 0 /\ name[Len(name)] = suffix

\* the image format without the look at the file name
ImageFormat_AlwaysQcow2(image_name) == "qcow2"

\* "qcow2" if image_name.endswith("qcow2") else "raw"
ImageFormat(image_name) ==
    IF EndsWith(image_name, "qcow2") THEN "qcow2" ELSE "raw"

Letters == << "a", "b", "c", "d", "e", "f", "g", "h" >>

\* f"vd{chr(ord('a') + i)}", i counted from 0
DeviceName(i) == << "vd", Letters[i + 1] >>

\* f"{uuid}-{i}.qcow2" in the pool, i counted from 0
DiskPath(pool, uuid, i) ==
    PoolPath(pool, << uuid, "-", Digits[i + 1], ".", "qcow2" >>)

disk_template(device, image, image_format) ==
    [driver_type |-> image_format, source_file |-> image,
     target_dev |-> device]

\* the <disk> elements of the disks of a node without an image
EmptyDisksXml(pool, uuid, disks) ==
    [k \in 1..Len(disks) |->
        disk_template(DeviceName(k - 1), DiskPath(pool, uuid, k - 1),
                      "qcow2")]

RECURSIVE CreateEmptyDisks(_, _, _, _, _)
\* the loop over enumerate(disks): one qemu-img create per disk, from the
\* k-th on
CreateEmptyDisks(m, pool, uuid, disks, k) ==
    IF k > Len(disks) THEN m
    ELSE CreateEmptyDisks(
             QemuImgCreate(m, DiskPath(pool, uuid, k - 1), disks[k]),
             pool, uuid, disks, k + 1)

RECURSIVE RemoveFiles(_, _, _)
\* for disk_path in paths: sudo rm -f disk_path, from the k-th on
RemoveFiles(m, paths, k) ==
    IF k > Len(paths) THEN m
    ELSE RemoveFiles(RmForce(m, paths[k]), paths, k + 1)

\* <boot dev="hd"/>, or network first and then hd
BootXml(boot) ==
    IF boot = "hd" THEN << "hd" >> ELSE << "network", "hd" >>

\* network_iface_template / bridge_iface_template
IfaceXml(net_type, network) ==
    IF net_type = "network"
    THEN [type |-> "network", source |-> network]
    ELSE [type |-> "bridge", source |-> network]

domain_template(name, uuid, meta_tags, memory, cores, boot, disks, net_iface) ==
    [name |-> name, uuid |-> uuid, meta_tags |-> meta_tags,
     memory |-> memory, vcpu |-> cores, boot |-> boot, disks |-> disks,
     net_iface |-> net_iface]

\* the try block of create_domain: define, start; any exception removes
\* disk_paths and is not raised again
DefineAndStart(m, name, domain, disk_paths) ==
    LET tried == VirshStart(VirshDefine(m, name, domain), name)
    IN  IF Running(m) /\ ~Running(tried)
        THEN RemoveFiles([tried EXCEPT !.err = "none"], disk_paths, 1)
        ELSE tried

\* disks_xml of create_domain: the copy of the image at vda, or the new
\* disks
DisksXml(pool, uuid, image, disks) ==
    IF image # None
    THEN << disk_template(DeviceName(0), PoolPath(pool, basename(image[1])),
                          ImageFormat(basename(image[1]))) >>
    ELSE EmptyDisksXml(pool, uuid, disks)

\* disk_paths of create_domain: the disks it allocated itself
DiskPaths(pool, uuid, image, disks) ==
    IF image # None THEN << >>
    ELSE [k \in 1..Len(disks) |-> DiskPath(pool, uuid, k - 1)]

\* the descriptor create_domain writes to the file; memory <<= 10
DomainXml(name, uuid, cores, memory, network, net_type, image, disks, meta_tags, boot) ==
    domain_template(name, uuid, meta_tags, memory * 1024, cores,
                    BootXml(boot),
                    DisksXml(LIBVIRT_DEF_POOL_PATH, uuid, image, disks),
                    IfaceXml(net_type, network))

\* create_domain(name, cores, memory, network, net_type, pool, image,
\*               disks, meta_tags, boot)
create_domain(m, name, cores, memory, network, net_type, image, disks, meta_tags, boot) ==
    LET pool == LIBVIRT_DEF_POOL_PATH
        uuid == FreshUuid(m, name)
        domain == DomainXml(name, uuid, cores, memory, network, net_type,
                            image, disks, meta_tags, boot)
        disk_paths == DiskPaths(pool, uuid, image, disks)
    IN  IF ~Running(m) THEN m
        ELSE IF image # None THEN
            DefineAndStart(
                RmThenCp(m, image[1], PoolPath(pool, basename(image[1]))),
                name, domain, disk_paths)
        ELSE IF Len(disks) > 0 THEN
            DefineAndStart(CreateEmptyDisks(m, pool, uuid, disks, 1),
                           name, domain, disk_paths)
        ELSE Raise(m, "ValueError: image or disks")

\* get_domain_disks(name): every <source file=...> of the dumped descriptor
get_domain_disks(m, name) ==
    LET c == VirshDumpxml(m, name)
    IN  [m |-> c,
         val |-> IF Running(c)
                 THEN [k \in 1..Len(c.domains[name].xml.disks) |->
                          c.domains[name].xml.disks[k].source_file]
                 ELSE << >>]

\* destroy_domain(name)
destroy_domain(m, name) ==
    LET d == get_domain_disks(m, name)
        a == is_active_domain(d.m, name)
        m1 == IF ~Running(d.m) THEN d.m
              ELSE IF a.val THEN Caught(a.m, VirshDestroy(a.m, name))
              ELSE a.m
        m2 == Caught(m1, VirshUndefine(m1, name))
    IN  RemoveFiles(m2, d.val, 1)

\* list_xml_domains(): the names in the order virsh lists them, then one
\* dumpxml per name
RECURSIVE DumpAll(_, _, _)
DumpAll(m, order, k) ==
    IF k > Len(order) THEN m
    ELSE DumpAll(VirshDumpxml(m, order[k]), order, k + 1)

list_xml_domains(m, order) ==
    LET c == DumpAll(Call(m, "list", "all"), order, 1)
    IN  [m |-> c,
         val |-> IF Running(c)
                 THEN [k \in 1..Len(order) |-> c.domains[order[k]].xml]
                 ELSE << >>]

\* ------------------------------------------------------------------------
\* infra/driver/libvirt.py: the driver
\* ------------------------------------------------------------------------

\* xml.getElementsByTagName(tag): the <name> element or the metadata tags
getElementsByTagName(xml, tag) ==
    IF tag = "name"
    THEN << [tag |-> "name", text |-> Some(xml.name), attrs |-> << >>] >>
    ELSE SelectSeq(xml.meta_tags, LAMBDA e : e.tag = tag)

\* _get_tag_value(xml, tag): the text of the first element, None when
\* there is no such element or it has no text
_get_tag_value(xml, tag) ==
    LET elements == getElementsByTagName(xml, tag)
    IN  IF Len(elements) = 0 THEN None ELSE elements[1].text

\* Python values handed to str(): an int, or a string
PyInt(n) == [type |-> "int", v |-> n]

PyString(s) == [type |-> "str", v |-> s]

\* str(value)
PyStr(x) == IF x.type = "int" THEN IntToStr(x.v) ELSE x.v

\* LibvirtInfraDriver._tag(tag, value, fields): value None gives an
\* element without text; the fields become attributes
_tag(tag, value, fields) ==
    LET fields_str == [k \in DOMAIN fields |-> PyStr(fields[k])]
    IN  IF value = None
        THEN [tag |-> tag, text |-> None, attrs |-> fields_str]
        ELSE [tag |-> tag, text |-> Some(PyStr(value[1])),
              attrs |-> fields_str]

\* int(bool)
BoolToInt(b) == IF b THEN 1 ELSE 0

\* LibvirtInfraDriver._domain2node(domain); int(None) raises TypeError
_domain2node(domain) ==
    LET cores == _get_tag_value(domain, GENESIS_META_CPU_TAG)
        ram == _get_tag_value(domain, GENESIS_META_MEM_TAG)
        name == _get_tag_value(domain, "name")
        image == _get_tag_value(domain, GENESIS_META_IMAGE_TAG)
    IN  IF cores = None \/ ram = None
        THEN [err |-> "TypeError", val |-> None]
        ELSE [err |-> "none",
              val |-> Some([name |-> name[1], cores |-> StrToInt(cores[1]),
                            memory |-> StrToInt(ram[1]), image |-> image,
                            disks |-> << >>])]

\* LibvirtInfraDriver._domain2bootstrap(domain)
_domain2bootstrap(domain) ==
    LET node == _domain2node(domain)
    IN  IF node.err # "none" THEN node
        ELSE [err |-> "none", val |-> Some(from_node(node.val[1]))]

\* LibvirtInfraDriver._extract_net_from_bootstrap(bootstrap)
_extract_net_from_bootstrap(bootstrap) ==
    LET nets_ == getElementsByTagName(bootstrap, GENESIS_META_NET_TAG)
    IN  IF Len(nets_) = 0 THEN [err |-> "IndexError", val |-> None]
        ELSE IF nets_[1].text = None
        THEN [err |-> "AttributeError", val |-> None]
        ELSE LET net == nets_[1]
                 a == net.attrs
             IN  [err |-> "none",
                  val |-> Some(
                      [name |-> net.text[1],
                       cidr |-> StrToCidr(a.cidr),
                       managed_network |-> StrToInt(a.managed_network) # 0,
                       dhcp |-> StrToInt(a.dhcp) # 0])]

\* a list_stands that opens a new stand for every bootstrap it meets under
\* a name it has seen
SetDefault_PerNetwork(stands, stand_name) ==
    IF \E i \in 1..Len(stands) :
           stands[i].name = stand_name /\ Len(stands[i].bootstraps) = 0
    THEN stands
    ELSE Append(stands, empty_stand(stand_name))

\* stands.setdefault(stand_name, Stand.empty_stand(stand_name)): the
\* dict keeps the order in which the names were first seen
SetDefault(stands, stand_name) ==
    IF \E i \in 1..Len(stands) : stands[i].name = stand_name THEN stands
    ELSE Append(stands, empty_stand(stand_name))

IndexOf(stands, stand_name) ==
    CHOOSE i \in 1..Len(stands) : stands[i].name = stand_name

\* list_stands without the skip of untagged domains
IsUnmanaged_NeverSkips(stand_name) == FALSE

\* the stand-name test of list_stands: a domain without the tag is skipped
IsUnmanaged(stand_name) == stand_name = None

\* a node type that takes every tagged domain that is not a bootstrap for a
\* baremetal
NodeType_GuessBaremetal(domain) ==
    IF _get_tag_value(domain, GENESIS_META_NODE_TYPE_TAG) = Some("bootstrap")
    THEN Some("bootstrap")
    ELSE Some("baremetal")

\* node_type = _get_tag_value(domain, vc.GENESIS_META_NODE_TYPE_TAG)
NodeType(domain) == _get_tag_value(domain, GENESIS_META_NODE_TYPE_TAG)

\* the body of the loop of list_stands for one dumped domain
ListStep(acc, domain) ==
    LET stand_name == _get_tag_value(domain, GENESIS_META_STAND_TAG)
    IN  IF acc.err # "none" \/ IsUnmanaged(stand_name) THEN acc
        ELSE
        LET stands == SetDefault(acc.stands, stand_name[1])
            i == IndexOf(stands, stand_name[1])
            node_type == NodeType(domain)
        IN  IF node_type = Some("bootstrap") THEN
                LET b == _domain2bootstrap(domain)
                    n == _extract_net_from_bootstrap(domain)
                IN  IF b.err # "none" THEN [acc EXCEPT !.err = b.err]
                    ELSE IF n.err # "none" THEN [acc EXCEPT !.err = n.err]
                    ELSE [acc EXCEPT !.stands =
                             [stands EXCEPT
                                 ![i].bootstraps = Append(@, b.val[1]),
                                 ![i].network = n.val[1]]]
            ELSE IF node_type = Some("baremetal") THEN
                LET b == _domain2node(domain)
                IN  IF b.err # "none" THEN [acc EXCEPT !.err = b.err]
                    ELSE [acc EXCEPT !.stands =
                             [stands EXCEPT
                                 ![i].baremetals = Append(@, b.val[1])]]
            ELSE [acc EXCEPT !.err = "NotImplementedError"]

RECURSIVE ListLoop(_, _, _)
ListLoop(acc, xmls, k) ==
    IF k > Len(xmls) THEN acc
    ELSE ListLoop(ListStep(acc, xmls[k]), xmls, k + 1)

\* LibvirtInfraDriver.list_stands(); order is the order of virsh list
list_stands(m, order) ==
    LET r == list_xml_domains(m, order)
        acc == ListLoop([stands |-> << >>, err |-> r.m.err], r.val, 1)
    IN  [m |-> [r.m EXCEPT !.err = acc.err],
         val |-> IF acc.err = "none" THEN acc.stands ELSE << >>]

\* itertools.chain(stand.bootstraps, stand.baremetals)
Chain(stand) == stand.bootstraps \o stand.baremetals

RECURSIVE AnyHasDomain(_, _, _)
\* any(libvirt.has_domain(n.name) for n in nodes): stops at the first hit
AnyHasDomain(m, nodes, k) ==
    IF k > Len(nodes) THEN [m |-> m, val |-> FALSE]
    ELSE LET r == has_domain(m, nodes[k].name)
         IN  IF r.val THEN r ELSE AnyHasDomain(r.m, nodes, k + 1)

\* the first check of create_stand, off by one
TooManyBootstraps_OffByOne(stand) == Len(stand.bootstraps) > 2

\* the first check of create_stand
TooManyBootstraps(stand) == Len(stand.bootstraps) > 1

\* "network" if stand.network.managed_network else "bridge"
NetType(network) == IF network.managed_network THEN "network" ELSE "bridge"

\* the optional image of a node as the value handed to _tag
ImageValue(image) == IF image = None THEN None ELSE Some(PyString(image[1]))

\* the metadata tags of a bootstrap domain
BootstrapTags(stand, bootstrap) ==
    << _tag(GENESIS_META_STAND_TAG, Some(PyString(stand.name)), << >>),
       _tag(GENESIS_META_CPU_TAG, Some(PyInt(bootstrap.cores)), << >>),
       _tag(GENESIS_META_MEM_TAG, Some(PyInt(bootstrap.memory)), << >>),
       _tag(GENESIS_META_IMAGE_TAG, ImageValue(bootstrap.image), << >>),
       _tag(GENESIS_META_NODE_TYPE_TAG, Some(PyString("bootstrap")), << >>),
       _tag(GENESIS_META_NET_TAG, Some(PyString(stand.network.name)),
            [cidr |-> PyString(CidrToStr(stand.network.cidr)),
             managed_network |->
                 PyInt(BoolToInt(stand.network.managed_network)),
             dhcp |-> PyInt(BoolToInt(stand.network.dhcp))]) >>

\* the metadata tags of a baremetal domain
BaremetalTags(stand, node) ==
    << _tag(GENESIS_META_STAND_TAG, Some(PyString(stand.name)), << >>),
       _tag(GENESIS_META_CPU_TAG, Some(PyInt(node.cores)), << >>),
       _tag(GENESIS_META_MEM_TAG, Some(PyInt(node.memory)), << >>),
       _tag(GENESIS_META_NODE_TYPE_TAG, Some(PyString("baremetal")), << >>) >>

RECURSIVE CreateBootstraps(_, _, _)
\* for bootstrap in stand.bootstraps: create_domain(...), from the k-th on
CreateBootstraps(m, stand, k) ==
    IF k > Len(stand.bootstraps) THEN m
    ELSE LET bootstrap == stand.bootstraps[k]
         IN  CreateBootstraps(
                 create_domain(m, bootstrap.name, bootstrap.cores,
                               bootstrap.memory, stand.network.name,
                               NetType(stand.network), bootstrap.image,
                               << >>, BootstrapTags(stand, bootstrap), "hd"),
                 stand, k + 1)

RECURSIVE CreateBaremetals(_, _, _)
\* for node in stand.baremetals: create_domain(...), from the k-th on
CreateBaremetals(m, stand, k) ==
    IF k > Len(stand.baremetals) THEN m
    ELSE LET node == stand.baremetals[k]
         IN  CreateBaremetals(
                 create_domain(m, node.name, node.cores, node.memory,
                               stand.network.name, NetType(stand.network),
                               node.image, node.disks,
                               BaremetalTags(stand, node), "network"),
                 stand, k + 1)

\* a create_stand that creates the network after the domains
Realize_NetworkLast(m, stand) ==
    LET m1 == CreateBaremetals(CreateBootstraps(m, stand, 1), stand, 1)
    IN  IF stand.network.managed_network
        THEN create_nat_network(m1, stand.network.name, stand.network.cidr,
                                stand.network.dhcp)
        ELSE m1

\* the part of create_stand after the checks
Realize(m, stand) ==
    LET m1 == IF stand.network.managed_network
              THEN create_nat_network(m, stand.network.name,
                                      stand.network.cidr, stand.network.dhcp)
              ELSE m
    IN  CreateBaremetals(CreateBootstraps(m1, stand, 1), stand, 1)

\* LibvirtInfraDriver.create_stand(stand)
create_stand(m, stand) ==
    IF TooManyBootstraps(stand) THEN Raise(m, "NotImplementedError")
    ELSE IF ~is_valid(stand) THEN Raise(m, "ValueError: invalid")
    ELSE
    LET d == AnyHasDomain(m, Chain(stand), 1)
    IN  IF d.val THEN Raise(d.m, "ValueError: domain exists")
        ELSE
        LET n == IF stand.network.managed_network
                 THEN has_net(d.m, [type |-> "Network", v |-> stand.network])
                 ELSE [m |-> d.m, val |-> FALSE]
        IN  IF n.val THEN Raise(n.m, "ValueError: network exists")
            ELSE Realize(n.m, stand)

\* delete_stand without the test of the managed flag
OwnsNetwork_Always(stand) == TRUE

\* if stand.network.managed_network: the network is the driver's to destroy
OwnsNetwork(stand) == stand.network.managed_network

RECURSIVE DestroyDomains(_, _, _)
\* for node in chain(bootstraps, baremetals): destroy_domain(node.name)
DestroyDomains(m, nodes, k) ==
    IF k > Len(nodes) THEN m
    ELSE DestroyDomains(destroy_domain(m, nodes[k].name), nodes, k + 1)

\* a delete_stand that tears the network down first
delete_stand_NetworkFirst(m, stand) ==
    LET m1 == IF OwnsNetwork(stand) THEN destroy_net(m, stand.network.name)
              ELSE m
    IN  DestroyDomains(m1, Chain(stand), 1)

\* LibvirtInfraDriver.delete_stand(stand)
delete_stand(m, stand) ==
    LET m1 == DestroyDomains(m, Chain(stand), 1)
    IN  IF ~Running(m1) THEN m1
        ELSE IF OwnsNetwork(stand)
        THEN destroy_net(m1, stand.network.name)
        ELSE m1

\* ------------------------------------------------------------------------
\* The stands given to the driver
\* ------------------------------------------------------------------------

Node(name, memory, cores, disks, image) ==
    [name |-> name, memory |-> memory, cores |-> cores, disks |-> disks,
     image |-> image]

ImgA == [dir |-> "/img", file |-> << "base", ".", "qcow2" >>]

\* the same file name in another directory
ImgB == [dir |-> "/srv", file |-> << "base", ".", "qcow2" >>]

ImgRaw == [dir |-> "/img", file |-> << "disk", ".", "raw" >>]

Net1 ==
    [name |-> "net1", cidr |-> [addr |-> Ip(10, 20, 0, 0), prefix |-> 22],
     dhcp |-> TRUE, managed_network |-> TRUE]

\* a bridge of the host, also known to libvirt under its name
Br0 ==
    [name |-> "br0", cidr |-> [addr |-> Ip(10, 30, 0, 0), prefix |-> 24],
     dhcp |-> FALSE, managed_network |-> FALSE]

\* a managed network without DHCP
Net2 ==
    [name |-> "net2", cidr |-> [addr |-> Ip(10, 40, 0, 0), prefix |-> 24],
     dhcp |-> FALSE, managed_network |-> TRUE]

Networks == { Dummy, Net1, Net2, Br0 }

StandNames == { "s1", "s2" }

B1 == Node("n1", 2048, 2, << 10 >>, Some(ImgA))

B1NoImage == Node("n1", 2048, 2, << 10 >>, None)

B2 == Node("n2", 1024, 1, << 10 >>, Some(ImgB))

\* disk sizes in GiB: 20, 40, ...
DiskSizes == [k \in 1..MaxDisks |-> 20 * k]

M1 == Node("n3", 1024, 1, DiskSizes, None)

M2 == Node("n2", 4096, 4, << >>, Some(ImgRaw))

\* neither an image nor a disk
M3 == Node("n2", 1024, 1, << >>, None)

BootstrapLists ==
    { << >>, << B1 >>, << B1NoImage >>, << B2 >>, << B1, B2 >>,
      << B1NoImage, B2 >> }

BaremetalLists ==
    { << >>, << M1 >>, << M2 >>, << M3 >>, << M1, M2 >>, << M1, M1 >>,
      << M1, M3 >>, << M3, M1 >> }

\* the networks tried with a stand name: the shared managed network with
\* both, the user's bridge with one, the managed network without DHCP with
\* the other
NetworksOf(name) ==
    IF name = "s1" THEN { Dummy, Net1, Br0 } ELSE { Dummy, Net1, Net2 }

Stands ==
    { s \in [name : StandNames, network : Networks,
              bootstraps : BootstrapLists, baremetals : BaremetalLists] :
        s.network \in NetworksOf(s.name) }

\* ------------------------------------------------------------------------
\* The host before the driver is used: a machine of the user, without
\* genesis metadata, and the libvirt network of the user's bridge
\* ------------------------------------------------------------------------

UserDisk == PoolPath(LIBVIRT_DEF_POOL_PATH, << "vm", ".", "qcow2" >>)

UserDomain ==
    [xml |-> domain_template("vm", "vm", << >>, 1048576, 1, << "hd" >>,
                             << disk_template(DeviceName(0), UserDisk,
                                              "qcow2") >>,
                             IfaceXml("bridge", "br0")),
     active |-> TRUE]

UserNet ==
    [xml |-> [name |-> "br0", forward |-> "bridge", domain |-> "br0",
              ip |-> << >>, netmask |-> << >>, dhcp |-> None],
     active |-> TRUE, autostart |-> TRUE]

NoStand == empty_stand("")

Machine == [domains |-> domains, nets |-> nets, files |-> files,
            calls |-> << >>, err |-> "none", fail |-> 0]

RECURSIVE Orders(_)
\* every order in which virsh list can print the names
Orders(names) ==
    IF names = {} THEN { << >> }
    ELSE UNION { { << n >> \o o : o \in Orders(names \ { n }) } :
                 n \in names }

Init ==
    /\ domains = [n \in { "vm" } |-> UserDomain]
    /\ nets = [n \in { "br0" } |-> UserNet]
    /\ files = [f \in { UserDisk } |->
                   [kind |-> "empty", src |-> UserDisk, size |-> 10]]
    /\ pc = "idle"
    /\ op = "none"
    /\ arg = NoStand
    /\ err = "none"
    /\ calls = << >>
    /\ ret = << >>
    /\ procs = << >>

Returned(name, stand, m, val) ==
    /\ domains' = m.domains
    /\ nets' = m.nets
    /\ files' = m.files
    /\ calls' = m.calls
    /\ err' = m.err
    /\ pc' = "done"
    /\ op' = name
    /\ arg' = stand
    /\ ret' = val
    /\ UNCHANGED procs

CreateStand(stand) ==
    /\ pc = "idle"
    /\ Returned("create_stand", stand, create_stand(Machine, stand), << >>)

DeleteStand(stand) ==
    /\ pc = "idle"
    /\ Returned("delete_stand", stand, delete_stand(Machine, stand), << >>)

ListStands(order) ==
    /\ pc = "idle"
    /\ LET r == list_stands(Machine, order)
       IN  Returned("list_stands", NoStand, r.m, r.val)

\* the caller has the result; the next call starts from the hypervisor alone
Return ==
    /\ pc = "done"
    /\ pc' = "idle"
    /\ op' = "none"
    /\ arg' = NoStand
    /\ err' = "none"
    /\ calls' = << >>
    /\ ret' = << >>
    /\ UNCHANGED << domains, nets, files, procs >>

Next ==
    \/ pc = "idle" /\ \E stand \in Stands : CreateStand(stand)
    \/ pc = "idle" /\ \E stand \in Stands : DeleteStand(stand)
    \/ pc = "idle" /\ \E order \in Orders(DOMAIN domains) : ListStands(order)
    \/ Return

Spec == Init /\ [][Next]_vars

\* ------------------------------------------------------------------------
\* The network synthesis alone: create_nat_network and destroy_net on
\* networks of every size
\* ------------------------------------------------------------------------

NetCidrs ==
    { [addr |-> a, prefix |-> p] :
        a \in { Ip(10, 20, 0, 0), Ip(100, 64, 0, 0) }, p \in 16..32 }

NetworkArg(name, cidr, dhcp) ==
    [NoStand EXCEPT !.network =
        [name |-> name, cidr |-> cidr, dhcp |-> dhcp,
         managed_network |-> TRUE]]

CreateNatNetwork(name, cidr, dhcp) ==
    /\ pc = "idle"
    /\ Returned("create_nat_network", NetworkArg(name, cidr, dhcp),
                create_nat_network(Machine, name, cidr, dhcp), << >>)

DestroyNet(name) ==
    /\ pc = "idle"
    /\ Returned("destroy_net", NetworkArg(name, Dummy.cidr, FALSE),
                destroy_net(Machine, name), << >>)

NextNet ==
    \/ \E cidr \in NetCidrs, dhcp \in BOOLEAN :
           CreateNatNetwork("net1", cidr, dhcp)
    \/ DestroyNet("net1")
    \/ Return

SpecNet == Init /\ [][NextNet]_vars

\* ------------------------------------------------------------------------
\* The facade and the driver on hosts that hold domains the driver did not
\* create, with commands that can fail for reasons of the host
\* ------------------------------------------------------------------------

HostStand == [name |-> "s1", network |-> Net1, bootstraps |-> << B1 >>,
              baremetals |-> << M1 >>]

\* a domain as create_stand defines it
HostDomain(node, tags, boot, uuid, active) ==
    [xml |-> domain_template(
                 node.name, uuid, tags, node.memory * 1024, node.cores,
                 BootXml(boot),
                 IF node.image # None
                 THEN << disk_template(
                             DeviceName(0),
                             PoolPath(LIBVIRT_DEF_POOL_PATH,
                                      basename(node.image[1])),
                             ImageFormat(basename(node.image[1]))) >>
                 ELSE EmptyDisksXml(LIBVIRT_DEF_POOL_PATH, uuid, node.disks),
                 IfaceXml("network", "net1")),
     active |-> active]

\* a payload machine: the stand tag, and a node type the driver does not
\* know
P1 == Node("p1", 512, 1, << 5 >>, None)

PayloadTags ==
    << _tag(GENESIS_META_STAND_TAG, Some(PyString("s1")), << >>),
       _tag(GENESIS_META_CPU_TAG, Some(PyInt(1)), << >>),
       _tag(GENESIS_META_MEM_TAG, Some(PyInt(512)), << >>),
       _tag(GENESIS_META_NODE_TYPE_TAG, Some(PyString("payload")), << >>) >>

\* a machine with the stand tag and no node-type tag
P2 == Node("p2", 512, 1, << 5 >>, None)

UntypedTags ==
    << _tag(GENESIS_META_STAND_TAG, Some(PyString("s2")), << >>),
       _tag(GENESIS_META_CPU_TAG, Some(PyInt(1)), << >>),
       _tag(GENESIS_META_MEM_TAG, Some(PyInt(512)), << >>) >>

\* the domains a host can hold before the calls; the baremetal is stopped
HostCatalogue ==
    [n \in { "vm", "n1", "n3", "p1", "p2" } |->
        CASE n = "vm" -> UserDomain
          [] n = "n1" -> HostDomain(B1, BootstrapTags(HostStand, B1), "hd",
                                    "h1", TRUE)
          [] n = "n3" -> HostDomain(M1, BaremetalTags(HostStand, M1),
                                    "network", "h3", FALSE)
          [] n = "p1" -> HostDomain(P1, PayloadTags, "hd", "h4", TRUE)
          [] n = "p2" -> HostDomain(P2, UntypedTags, "hd", "h5", TRUE)]

\* the disk files of a set of domains
DiskFilesOf(doms) ==
    UNION { { doms[n].xml.disks[k].source_file :
                k \in 1..Len(doms[n].xml.disks) } : n \in DOMAIN doms }

\* the networks of a host: the user's bridge, and with it the network of
\* the stand, started or only defined
HostNets ==
    LET net1 == [xml |-> nat_network_template(
                             [name |-> "net1", netmask |-> NetmaskStr(Net1.cidr),
                              ip |-> IpToStr(Net1.cidr.addr + 1),
                              range_start |-> IpToStr(Net1.cidr.addr + 10),
                              range_end |-> IpToStr(Net1.cidr.addr + 100)]),
                 active |-> TRUE, autostart |-> TRUE]
    IN  { [n \in { "br0" } |-> UserNet],
          [n \in { "br0", "net1" } |-> IF n = "br0" THEN UserNet ELSE net1],
          [n \in { "br0", "net1" } |->
              IF n = "br0" THEN UserNet
              ELSE [net1 EXCEPT !.active = FALSE, !.autostart = FALSE]] }

InitHost ==
    /\ \E names \in SUBSET (DOMAIN HostCatalogue) :
           /\ domains = [n \in names |-> HostCatalogue[n]]
           /\ files = [f \in DiskFilesOf([n \in names |-> HostCatalogue[n]])
                          |-> [kind |-> "empty", src |-> f, size |-> 10]]
    /\ nets \in HostNets
    /\ pc = "idle"
    /\ op = "none"
    /\ arg = NoStand
    /\ err = "none"
    /\ calls = << >>
    /\ ret = << >>
    /\ procs = << >>

\* the commands of the longest call, each of which can be the one that fails
MaxFail == MaxDisks + 12

\* the stands created on such hosts
FaultStands ==
    { [name |-> "s2", network |-> net, bootstraps |-> << B2 >>,
       baremetals |-> ms] :
        net \in { Net1, Br0 }, ms \in { << >>, << M1 >> } }

\* create_stand with the fail-th command failing
CreateStandFaulty(stand, fail) ==
    /\ pc = "idle"
    /\ Returned("create_stand", stand,
                create_stand([Machine EXCEPT !.fail = fail], stand), << >>)

\* the nodes handed to create_domain
FacadeNodes == { M1, M2, M3 }

\* libvirt.create_domain(...) as create_stand calls it for a baremetal, with
\* the fail-th command failing
CreateDomain(node, fail) ==
    /\ pc = "idle"
    /\ Returned("create_domain",
                [empty_stand("") EXCEPT !.baremetals = << node >>],
                create_domain([Machine EXCEPT !.fail = fail], node.name,
                              node.cores, node.memory, "br0", "bridge",
                              node.image, node.disks, << >>, "network"),
                << >>)

\* libvirt.destroy_domain(name)
DestroyDomain(name) ==
    /\ pc = "idle"
    /\ Returned("destroy_domain", empty_stand(name),
                destroy_domain(Machine, name), << >>)

NextHost ==
    \/ pc = "idle" /\ \E order \in Orders(DOMAIN domains) : ListStands(order)
    \/ pc = "idle" /\ \E stand \in FaultStands, fail \in 0..MaxFail :
           CreateStandFaulty(stand, fail)
    \/ pc = "idle" /\ \E node \in FacadeNodes, fail \in 0..MaxFail :
           CreateDomain(node, fail)
    \/ pc = "idle" /\ \E name \in { "vm", "n1", "n2", "n3" } :
           DestroyDomain(name)
    \/ \E name \in { "net1", "net2" } : DestroyNet(name)

\* one call on each host
SpecHost == InitHost /\ [][NextHost]_vars

\* ------------------------------------------------------------------------
\* backup.py: the encryption credentials taken from the environment
\* ------------------------------------------------------------------------

\* EnctryptionCreds.LEN
LEN == 16

\* EnctryptionCreds.MIN_LEN
MIN_LEN == 6

\* the longest value tried for a variable of the environment
MaxKeyLen == 17

\* a string of n characters
StringOfLen(n) == [i \in 1..n |-> "k"]

\* os.environ.get(name): None when the variable is not set
EnvValues == { None } \cup { Some(StringOfLen(n)) : n \in 0..MaxKeyLen }

\* not value, for an optional string: None and "" are false
Falsy(value) == value = None \/ Len(value[1]) = 0

\* cls.MIN_LEN <= len(value) < cls.LEN
LenInRange(value) == MIN_LEN <= Len(value) /\ Len(value) < LEN

\* EnctryptionCreds.validate_env(): the exception raised, if any
validate_env(env) ==
    IF Falsy(env.key) \/ Falsy(env.iv) THEN "ValueError"
    ELSE IF LenInRange(env.key[1]) /\ LenInRange(env.iv[1]) THEN "none"
    ELSE "ValueError"

\* the check of bakcup_cmd when --encrypt is given
EncryptCheck(env) ==
    IF validate_env(env) = "ValueError" THEN "click.UsageError" ELSE "none"

InitCreds ==
    /\ domains = << >>
    /\ nets = << >>
    /\ files = << >>
    /\ pc = "idle"
    /\ op = "none"
    /\ arg \in [key : EnvValues, iv : EnvValues]
    /\ err = "none"
    /\ calls = << >>
    /\ ret = << >>
    /\ procs = << >>

\* bakcup_cmd --encrypt in the environment arg
BackupCmd ==
    /\ pc = "idle"
    /\ pc' = "done"
    /\ op' = "bakcup_cmd"
    /\ err' = EncryptCheck(arg)
    /\ UNCHANGED << domains, nets, files, arg, calls, ret, procs >>

NextCreds == BackupCmd

SpecCreds == InitCreds /\ [][NextCreds]_vars

\* ------------------------------------------------------------------------
\* backup.py: backup, the supervisor and the backup process
\* ------------------------------------------------------------------------
\* domains maps a name to "running", "paused" or "shut off"; files tells
\* whether the backup directory and its archive exist and whether the free
\* space is below the threshold; procs holds the supervisor (sup) and the
\* process it starts (child).  A command is one step of the process that runs
\* it.  The backup process installs no handler: after SIGTERM or SIGKILL it
\* runs nothing more.

BackupSet == << "d1", "d2" >>

SeqRange(q) == { q[k] : k \in 1..Len(q) }

\* _resume_domains without the resume
_resume_domains_Nothing(doms, names) == doms

\* _resume_domains(domains): virsh resume of the paused ones among them
_resume_domains(doms, names) ==
    [n \in DOMAIN doms |->
        IF n \in SeqRange(names) /\ doms[n] = "paused" THEN "running"
        ELSE doms[n]]

\* _terminate_backup_process(backup_process): terminate, join(10), and kill
\* when the exit code is still None; exits tells whether the process has
\* exited by the end of the join
_terminate_backup_process(child, exits) ==
    [child EXCEPT !.state = "dead",
                  !.signals = IF exits THEN << "SIGTERM" >>
                              ELSE << "SIGTERM", "SIGKILL" >>]

\* the entry of _do_backup for the k-th domain, or what follows the loop
EnterBackup(child, k, compress) ==
    IF k <= Len(BackupSet) THEN [child EXCEPT !.pc = "inspect", !.k = k]
    ELSE IF compress THEN [child EXCEPT !.pc = "compress", !.k = k]
    ELSE [child EXCEPT !.state = "exited", !.pc = "done", !.k = k]

\* one command of _do_backup and backup_domain in the backup process
ChildStep(child, doms, fs, compress) ==
    LET name == BackupSet[child.k]
        ran(cmd) == [child EXCEPT !.calls =
                        Append(@, [cmd |-> cmd, arg |-> name])]
    IN  CASE child.pc = "inspect" ->
                 [child |-> [child EXCEPT !.pc =
                                IF doms[name] = "shut off" THEN "cp_cold"
                                ELSE "suspend"],
                  doms |-> doms, fs |-> fs]
          [] child.pc = "suspend" ->
                 [child |-> [ran("suspend") EXCEPT !.pc = "cp"],
                  doms |-> [doms EXCEPT ![name] = "paused"], fs |-> fs]
          [] child.pc = "cp" ->
                 [child |-> [ran("cp") EXCEPT !.pc = "resume"],
                  doms |-> doms, fs |-> fs]
          [] child.pc = "resume" ->
                 [child |-> EnterBackup(ran("resume"), child.k + 1, compress),
                  doms |-> [doms EXCEPT ![name] = "running"], fs |-> fs]
          [] child.pc = "cp_cold" ->
                 [child |-> EnterBackup(ran("cp"), child.k + 1, compress),
                  doms |-> doms, fs |-> fs]
          [] child.pc = "compress" ->
                 [child |-> [child EXCEPT !.pc = "rmtree"],
                  doms |-> doms, fs |-> [fs EXCEPT !.archive = TRUE]]
          [] child.pc = "rmtree" ->
                 [child |-> [child EXCEPT !.state = "exited", !.pc = "done"],
                  doms |-> doms, fs |-> [fs EXCEPT !.dir = FALSE]]

InitBackup ==
    /\ domains \in [{ "d1", "d2", "vm" } -> { "running", "shut off" }]
    /\ nets = << >>
    /\ files \in [dir : { FALSE }, archive : { FALSE }, low : BOOLEAN]
    /\ pc = "idle"
    /\ op = "backup"
    /\ arg \in [domains : { BackupSet }, compress : BOOLEAN]
    /\ err = "none"
    /\ calls = << >>
    /\ ret = << >>
    /\ procs = [sup |-> [pc |-> "entry", started |-> FALSE,
                         stopped |-> FALSE],
                child |-> [state |-> "none", pc |-> "none", k |-> 1,
                           calls |-> << >>, signals |-> << >>]]

\* backup() up to backup_process.start(): the directory is made, and with
\* too little space the call returns
BackupStart ==
    /\ procs.sup.pc = "entry"
    /\ files' = [files EXCEPT !.dir = TRUE]
    /\ procs' = IF files.low
                THEN [procs EXCEPT !.sup.pc = "done"]
                ELSE [procs EXCEPT !.sup.pc = "join", !.sup.started = TRUE,
                                   !.child = EnterBackup(
                                       [@ EXCEPT !.state = "running"], 1,
                                       arg.compress)]
    /\ UNCHANGED << domains, nets, pc, op, arg, err, calls, ret >>

\* the backup process runs its next command
BackupProcessStep ==
    /\ procs.child.state = "running"
    /\ LET r == ChildStep(procs.child, domains, files, arg.compress)
       IN  /\ procs' = [procs EXCEPT !.child = r.child]
           /\ domains' = r.doms
           /\ files' = r.fs
    /\ UNCHANGED << nets, pc, op, arg, err, calls, ret >>

\* join(3) returned with the process gone: Backup done
BackupJoined ==
    /\ procs.sup.pc = "join"
    /\ procs.child.state = "exited"
    /\ procs' = [procs EXCEPT !.sup.pc = "done"]
    /\ UNCHANGED << domains, nets, files, pc, op, arg, err, calls, ret >>

\* join(3) timed out and the free space is below the threshold: the process
\* is terminated
BackupLowSpace(exits) ==
    /\ procs.sup.pc = "join"
    /\ procs.child.state = "running"
    /\ files.low
    /\ procs' = [procs EXCEPT
                    !.sup.pc = "rmtree",
                    !.child = _terminate_backup_process(@, exits)]
    /\ UNCHANGED << domains, nets, files, pc, op, arg, err, calls, ret >>

\* shutil.rmtree(backup_path) and os.remove of the archive if it exists
BackupRemove ==
    /\ procs.sup.pc = "rmtree"
    /\ files' = [files EXCEPT !.dir = FALSE, !.archive = FALSE]
    /\ procs' = [procs EXCEPT !.sup.pc = "resume"]
    /\ UNCHANGED << domains, nets, pc, op, arg, err, calls, ret >>

\* _resume_domains(domains) and the return of backup()
BackupResume ==
    /\ procs.sup.pc = "resume"
    /\ domains' = _resume_domains(domains, arg.domains)
    /\ procs' = [procs EXCEPT !.sup.pc = "done", !.sup.stopped = TRUE]
    /\ UNCHANGED << nets, files, pc, op, arg, err, calls, ret >>

\* something else fills the disk
SpaceDrops ==
    /\ ~files.low
    /\ procs.sup.pc # "done"
    /\ files' = [files EXCEPT !.low = TRUE]
    /\ UNCHANGED << domains, nets, pc, op, arg, err, calls, ret, procs >>

NextBackup ==
    \/ BackupStart
    \/ BackupProcessStep
    \/ BackupJoined
    \/ \E exits \in BOOLEAN : BackupLowSpace(exits)
    \/ BackupRemove
    \/ BackupResume
    \/ SpaceDrops

SpecBackup == InitBackup /\ [][NextBackup]_vars

\* ------------------------------------------------------------------------
\* builder/dependency.py: LocalPathDependency, one fetch on each source tree
\* ------------------------------------------------------------------------
\* A path is the sequence of its components; the file system is the function
\* from the paths of its files to their contents, a directory being a proper
\* prefix of the path of a file.

SrcDir == << "tmp", "genesis_core_test_dir" >>

OutputDir == << "tmp", "deps_test" >>

IsPrefix(a, b) == Len(a) <= Len(b) /\ SubSeq(b, 1, Len(a)) = a

\* os.path.isdir(path)
IsDir(fs, path) ==
    \E f \in DOMAIN fs : IsPrefix(path, f) /\ Len(path) < Len(f)

\* os.path.basename(path), path without a trailing slash
PathBasename(path) == path[Len(path)]

\* the files the source directory is filled with, relative to it
SourceFiles ==
    { << "build" >>, << "build", "main.so" >>, << "my_project", "build" >>,
      << "my_project", "build", "lib.so" >>, << "README.md" >> }

\* the source trees: no path is a file and a directory at once
SourceTrees ==
    { t \in SUBSET SourceFiles :
        \A a, b \in t : IsPrefix(a, b) => a = b }

\* the values of "exclude" in the configuration
ExcludeLists ==
    { << >>, << << "build" >> >>, << << "my_project", "build" >> >>,
      << << "README.md" >> >>,
      << << "build" >>, << "README.md" >> >> }

\* LocalPathDependency.from_config(dep_config, work_dir) with an absolute
\* path: the dependency keeps path and dst
from_config(dep_config) ==
    [_path |-> dep_config.path.src, _img_dest |-> dep_config.dst,
     _local_path |-> None]

\* shutil.copytree(src, dst): every file below src, at the same place below
\* dst
copytree(fs, src, dst) ==
    LET below == { f \in DOMAIN fs : IsPrefix(src, f) }
        copies == { dst \o SubSeq(f, Len(src) + 1, Len(f)) : f \in below }
    IN  [f \in (DOMAIN fs) \cup copies |->
            IF f \in copies
            THEN fs[src \o SubSeq(f, Len(dst) + 1, Len(f))]
            ELSE fs[f]]

\* shutil.copy(src, dst) of a file into a directory
copy(fs, src, dst) ==
    With(fs, dst \o << PathBasename(src) >>, fs[src])

\* LocalPathDependency.fetch(output_dir)
fetch(fs, dep, output_dir) ==
    LET name == PathBasename(dep._path)
    IN  [fs |-> IF IsDir(fs, dep._path)
                THEN copytree(fs, dep._path, output_dir \o << name >>)
                ELSE copy(fs, dep._path, output_dir),
         dep |-> [dep EXCEPT !._local_path = Some(output_dir \o << name >>)]]

InitDeps ==
    /\ domains = << >>
    /\ nets = << >>
    /\ \E t \in SourceTrees \ { {} } :
           files = [f \in { SrcDir \o r : r \in t } |->
                       << "content of" >> \o SubSeq(f, Len(SrcDir) + 1, Len(f))]
    /\ pc = "idle"
    /\ op = "none"
    /\ \E src \in { SrcDir, SrcDir \o << "README.md" >> },
          exclude \in ExcludeLists :
           arg = [dst |-> "/opt/genesis_core", path |-> [src |-> src],
                  exclude |-> exclude]
    /\ arg.path.src = SrcDir \/ arg.path.src \in DOMAIN files
    /\ err = "none"
    /\ calls = << >>
    /\ ret = << >>
    /\ procs = << >>

\* dep = LocalPathDependency.from_config(dep_config, "/tmp");
\* dep.fetch(target_dir)
Fetch ==
    /\ pc = "idle"
    /\ pc' = "done"
    /\ op' = "fetch"
    /\ LET r == fetch(files, from_config(arg), OutputDir)
       IN  /\ files' = r.fs
           /\ ret' = r.dep._local_path
    /\ UNCHANGED << domains, nets, arg, err, calls, procs >>

NextDeps == Fetch

SpecDeps == InitDeps /\ [][NextDeps]_vars

\* ------------------------------------------------------------------------
\* backup.py: rotate, one call on each backups directory
\* ------------------------------------------------------------------------
\* A name is the sequence of its runs: a run of so many digits, or a run of
\* other characters.  An entry of the
\* directory has a name, is a directory or a file, and has two times: born,
\* when it was created, and ctime, what os.path.getctime returns on the
\* hosts libvirt runs on, the time of the last change of its inode.

MaxEntries == 3

MaxCount == 3

\* a run of n digits
DigitRun(n) == [digits |-> TRUE, n |-> n, text |-> ""]

\* a run of characters that are not digits
TextRun(text) == [digits |-> FALSE, n |-> 0, text |-> text]

\* time.strftime("%Y-%m-%d-%H-%M-%S")
Stamp ==
    << DigitRun(4), TextRun("-"), DigitRun(2), TextRun("-"), DigitRun(2),
       TextRun("-"), DigitRun(2), TextRun("-"), DigitRun(2), TextRun("-"),
       DigitRun(2) >>

\* a name with more digits at the end: 2025-01-01-00-00-00123
LongStamp == [Stamp EXCEPT ![11] = DigitRun(5)]

\* the names met in a backups directory: a backup, its archive, a name that
\* carries a timestamp further in, a date alone, a longer last run
NameShapes ==
    { Stamp, Stamp \o << TextRun(".tar.gz") >>,
      << TextRun("old-") >> \o Stamp, SubSeq(Stamp, 1, 5), LongStamp }

\* re.compile(r"^\d{4}-\d{2}-\d{2}-\d{2}-\d{2}-\d{2}").match(f): the first
\* five runs of digits are exactly as long as the pattern says, since a "-"
\* follows each, and the sixth is at least two digits long
PatternMatch(name) ==
    /\ Len(name) >= 11
    /\ \A k \in 1..11 :
           IF k % 2 = 0 THEN name[k] = TextRun("-")
           ELSE /\ name[k].digits
                /\ IF k = 1 THEN name[k].n = 4
                   ELSE IF k = 11 THEN name[k].n >= 2
                   ELSE name[k].n = 2

\* the directories rotate is run on: entry i was created at time i and its
\* inode was last changed then or later
BackupDirs ==
    UNION { [ids -> [name : NameShapes, kind : { "dir", "file" },
                     ctime : 1..(MaxEntries + 1)]] :
            ids \in SUBSET (1..MaxEntries) }

\* all_backups after the sort by os.path.getctime: the entries that match,
\* older ctime first; list.sort is stable, os.listdir gives any order
SortedBackups(dir) ==
    LET matching == { i \in DOMAIN dir : PatternMatch(dir[i].name) }
    IN  { o \in Orders(matching) :
            \A a, b \in 1..Len(o) :
                a < b => dir[o[a]].ctime <= dir[o[b]].ctime }

\* rotate(backups_dir, max_count), all_backups being sorted
rotate(dir, max_count, all_backups) ==
    IF max_count = 0 THEN dir
    ELSE IF Len(all_backups) > max_count
    THEN LET backups_to_remove ==
                 { all_backups[k] : k \in 1..(Len(all_backups) - max_count) }
         IN  [i \in (DOMAIN dir) \ backups_to_remove |-> dir[i]]
    ELSE dir

InitRotate ==
    /\ domains = << >>
    /\ nets = << >>
    /\ files \in { dir \in BackupDirs :
                     \A i \in DOMAIN dir : dir[i].ctime >= i }
    /\ pc = "idle"
    /\ op = "none"
    /\ arg = 0
    /\ err = "none"
    /\ calls = << >>
    /\ ret = << >>
    /\ procs = << >>

Rotate(max_count, all_backups) ==
    /\ pc = "idle"
    /\ pc' = "done"
    /\ op' = "rotate"
    /\ arg' = max_count
    /\ files' = rotate(files, max_count, all_backups)
    /\ UNCHANGED << domains, nets, err, calls, ret, procs >>

NextRotate ==
    \E max_count \in 0..MaxCount, all_backups \in SortedBackups(files) :
        Rotate(max_count, all_backups)

SpecRotate == InitRotate /\ [][NextRotate]_vars

\* ------------------------------------------------------------------------
\* cmd/cli.py: the bootstrap and delete commands, one command on each host
\* ------------------------------------------------------------------------

\* a bootstrap that does not look at the stands it was given
ReplaceExisting_Skips(m, stands, name, force, k) == [m |-> m, go |-> TRUE]

RECURSIVE ReplaceExisting(_, _, _, _, _)
\* for stand in infra.list_stands(): the stands of another name are passed
\* over; one of the name ends the command without --force and is deleted
\* with it.  go tells whether create_stand is reached
ReplaceExisting(m, stands, name, force, k) ==
    IF k > Len(stands) THEN [m |-> m, go |-> TRUE]
    ELSE IF stands[k].name # name
    THEN ReplaceExisting(m, stands, name, force, k + 1)
    ELSE IF ~force THEN [m |-> m, go |-> FALSE]
    ELSE LET d == delete_stand(m, stands[k])
         IN  IF ~Running(d) THEN [m |-> d, go |-> FALSE]
             ELSE ReplaceExisting(d, stands, name, force, k + 1)

\* _bootstrap_core after the loop over the listed stands: r is what
\* list_stands returned and e what the loop left; listed is what the command
\* was given
_bootstrap_core(r, e, dev_stand) ==
    [m |-> IF ~Running(r.m) THEN r.m
           ELSE IF ~e.go THEN e.m
           ELSE create_stand(e.m, dev_stand),
     listed |-> r.val]

\* delete_cmd(name) after r, what list_stands returned: the first listed
\* stand of the name is deleted, or a usage error is raised
delete_cmd(r, name) ==
    LET found == { k \in 1..Len(r.val) : r.val[k].name = name }
        first == CHOOSE k \in found : \A j \in found : k <= j
    IN  [m |-> IF ~Running(r.m) THEN r.m
               ELSE IF found = {} THEN Raise(r.m, "click.UsageError")
               ELSE delete_stand(r.m, r.val[first]),
         listed |-> r.val]

\* the stands the bootstrap command is run for
DevStands ==
    { [name |-> "s1", network |-> Net1, bootstraps |-> << B1 >>,
       baremetals |-> << >>],
      [name |-> "s1", network |-> Net2, bootstraps |-> << B2 >>,
       baremetals |-> << M1 >>],
      [name |-> "s2", network |-> Net1, bootstraps |-> << B2 >>,
       baremetals |-> << >>],
      [name |-> "s2", network |-> Net2, bootstraps |-> << B1NoImage >>,
       baremetals |-> << >>] }

\* the bootstrap command from the validity check on: an invalid stand ends
\* it before the hypervisor is asked anything
BootstrapCmd(dev_stand, force, order) ==
    /\ pc = "idle"
    /\ LET name == IF force THEN "bootstrap --force" ELSE "bootstrap"
       IN  IF ~is_valid(dev_stand)
           THEN Returned(name, dev_stand, Machine, << >>)
           ELSE \E r \in { list_stands(Machine, order) } :
                \E e \in { ReplaceExisting(r.m, r.val, dev_stand.name,
                                            force, 1) } :
                \E b \in { _bootstrap_core(r, e, dev_stand) } :
                    Returned(name, dev_stand, b.m, b.listed)

DeleteCmd(name, order) ==
    /\ pc = "idle"
    /\ \E r \in { list_stands(Machine, order) } :
       \E d \in { delete_cmd(r, name) } :
           Returned("delete", empty_stand(name), d.m, d.listed)

NextCli ==
    \/ \E dev_stand \in DevStands, force \in BOOLEAN,
          order \in Orders(DOMAIN domains) :
           BootstrapCmd(dev_stand, force, order)
    \/ \E name \in StandNames, order \in Orders(DOMAIN domains) :
           DeleteCmd(name, order)

SpecCli == InitHost /\ [][NextCli]_vars

\* ------------------------------------------------------------------------
\* Two processes, one driver call each, on one hypervisor
\* ------------------------------------------------------------------------
\* Neither the driver nor the facade takes a lock.  Every subprocess.run is
\* one step of the process that calls it, and the steps of the two processes
\* interleave; what a process computes between two commands is local to it
\* and is done with the command before it.

Procs == { 1, 2 }

\* uuid.uuid4() in process p for the k-th node of its stand: never the same
\* twice
ProcUuid(p, k) ==
    << << "a1", "a2", "a3" >>, << "b1", "b2", "b3" >> >>[p][k]

\* the call returns, or raises e
Finish(l, e) == [l EXCEPT !.pc = "done", !.err = e]

\* the node a process is at, and what create_stand passes to create_domain
\* for it
NodeOf(l) == Chain(l.stand)[l.k]

IsBootstrap(l) == l.k <= Len(l.stand.bootstraps)

NodeDisks(l) == IF IsBootstrap(l) THEN << >> ELSE NodeOf(l).disks

NodeXml(l) ==
    DomainXml(NodeOf(l).name, ProcUuid(l.id, l.k), NodeOf(l).cores,
              NodeOf(l).memory, l.stand.network.name,
              NetType(l.stand.network), NodeOf(l).image, NodeDisks(l),
              IF IsBootstrap(l) THEN BootstrapTags(l.stand, NodeOf(l))
              ELSE BaremetalTags(l.stand, NodeOf(l)),
              IF IsBootstrap(l) THEN "hd" ELSE "network")

NodeDiskPaths(l) ==
    DiskPaths(LIBVIRT_DEF_POOL_PATH, ProcUuid(l.id, l.k), NodeOf(l).image,
              NodeDisks(l))

NodeImagePath(l) ==
    PoolPath(LIBVIRT_DEF_POOL_PATH, basename(NodeOf(l).image[1]))

\* the entry of create_domain for the k-th node of the chain, or the return
\* of create_stand after the last
EnterNode(l, k) ==
    LET at == [l EXCEPT !.k = k, !.i = 1]
    IN  IF k > Len(Chain(l.stand)) THEN Finish(l, "none")
        ELSE IF NodeOf(at).image # None THEN [at EXCEPT !.pc = "rm_image"]
        ELSE IF Len(NodeDisks(at)) > 0 THEN [at EXCEPT !.pc = "qemu"]
        ELSE Finish(at, "ValueError: image or disks")

\* the part of create_stand after the checks, up to its first command
EnterRealize(l) ==
    LET net == l.stand.network
        go == [l EXCEPT !.passed = TRUE]
    IN  IF ~net.managed_network THEN EnterNode(go, 1)
        ELSE IF NatNetworkXml(net.name, net.cidr, net.dhcp) = None
        THEN Finish(go, "IndexError")
        ELSE [go EXCEPT !.pc = "net_define"]

EnterNetCheck(l) ==
    IF l.stand.network.managed_network THEN [l EXCEPT !.pc = "has_net"]
    ELSE EnterRealize(l)

\* the entry of create_stand, up to its first command
EnterChecks(l) ==
    IF TooManyBootstraps(l.stand) THEN Finish(l, "NotImplementedError")
    ELSE IF ~is_valid(l.stand) THEN Finish(l, "ValueError: invalid")
    ELSE IF Len(Chain(l.stand)) = 0 THEN EnterNetCheck(l)
    ELSE [l EXCEPT !.pc = "has_domain", !.k = 1]

\* create_domain after a define or a start that failed: the except branch
AfterFailure(l) ==
    IF Len(NodeDiskPaths(l)) > 0 THEN [l EXCEPT !.pc = "cleanup", !.i = 1]
    ELSE EnterNode(l, l.k + 1)

\* the loop of list_stands over the descriptors it has read
Parsed(l) ==
    LET acc == ListLoop([stands |-> << >>, err |-> "none"], l.xmls, 1)
    IN  [l EXCEPT !.pc = "done", !.err = acc.err,
                  !.ret = IF acc.err = "none" THEN acc.stands ELSE << >>]

\* a command has run: the process takes note of it and goes to next, or the
\* exception of the command ends the call
Out(l, c, next) ==
    [l |-> IF Running(c) THEN [next EXCEPT !.calls = c.calls]
           ELSE [Finish(l, c.err) EXCEPT !.calls = c.calls],
     m |-> [c EXCEPT !.err = "none"]]

\* one command of the call of a process, on the machine m; order is the
\* order in which virsh list prints the names
ProcStep(l, m, order) ==
    LET net == l.stand.network
    IN  CASE l.pc = "has_domain" ->
                 LET r == has_domain(m, NodeOf(l).name)
                 IN  Out(l, r.m,
                         IF r.val THEN Finish(l, "ValueError: domain exists")
                         ELSE IF l.k < Len(Chain(l.stand))
                         THEN [l EXCEPT !.k = @ + 1]
                         ELSE EnterNetCheck(l))
          [] l.pc = "has_net" ->
                 LET r == has_net(m, [type |-> "Network", v |-> net])
                 IN  Out(l, r.m,
                         IF r.val THEN Finish(l, "ValueError: network exists")
                         ELSE EnterRealize(l))
          [] l.pc = "net_define" ->
                 Out(l, VirshNetDefine(m, net.name,
                            NatNetworkXml(net.name, net.cidr, net.dhcp)[1]),
                     [l EXCEPT !.pc = "net_start"])
          [] l.pc = "net_start" ->
                 Out(l, VirshNetStart(m, net.name),
                     [l EXCEPT !.pc = "net_autostart"])
          [] l.pc = "net_autostart" ->
                 Out(l, VirshNetAutostart(m, net.name), EnterNode(l, 1))
          [] l.pc = "rm_image" ->
                 Out(l, RmForce(m, NodeImagePath(l)), [l EXCEPT !.pc = "cp"])
          [] l.pc = "cp" ->
                 Out(l, Cp(m, NodeOf(l).image[1], NodeImagePath(l)),
                     [l EXCEPT !.pc = "define"])
          [] l.pc = "qemu" ->
                 Out(l, QemuImgCreate(m, NodeDiskPaths(l)[l.i],
                                      NodeDisks(l)[l.i]),
                     IF l.i < Len(NodeDisks(l)) THEN [l EXCEPT !.i = @ + 1]
                     ELSE [l EXCEPT !.pc = "define"])
          [] l.pc = "define" ->
                 LET c == VirshDefine(m, NodeOf(l).name, NodeXml(l))
                 IN  Out(l, [c EXCEPT !.err = "none"],
                         IF Running(c) THEN [l EXCEPT !.pc = "start"]
                         ELSE AfterFailure(l))
          [] l.pc = "start" ->
                 LET c == VirshStart(m, NodeOf(l).name)
                 IN  Out(l, [c EXCEPT !.err = "none"],
                         IF Running(c) THEN EnterNode(l, l.k + 1)
                         ELSE AfterFailure(l))
          [] l.pc = "cleanup" ->
                 Out(l, RmForce(m, NodeDiskPaths(l)[l.i]),
                     IF l.i < Len(NodeDiskPaths(l))
                     THEN [l EXCEPT !.i = @ + 1]
                     ELSE EnterNode(l, l.k + 1))
          [] l.pc = "list" ->
                 Out(l, Call(m, "list", "all"),
                     IF Len(order) = 0 THEN Parsed(l)
                     ELSE [l EXCEPT !.pc = "dump", !.names = order,
                                    !.k = 1])
          [] l.pc = "dump" ->
                 LET c == VirshDumpxml(m, l.names[l.k])
                     read == [l EXCEPT !.xmls =
                                 Append(@, c.domains[l.names[l.k]].xml)]
                 IN  Out(l, c,
                         IF l.k < Len(l.names) THEN [read EXCEPT !.k = @ + 1]
                         ELSE Parsed(read))

\* delete_stand that goes through the baremetals first
DeleteOrder_BaremetalsFirst(stand) == stand.baremetals \o stand.bootstraps

\* for node in itertools.chain(stand.bootstraps, stand.baremetals) of
\* delete_stand
DeleteOrder(stand) == Chain(stand)

\* the end of delete_stand: the network if it is the driver's
EnterNetDelete(l) ==
    IF OwnsNetwork(l.stand) THEN [l EXCEPT !.pc = "net_destroy"]
    ELSE Finish(l, "none")

\* the entry of destroy_domain for the k-th node, or the end of the loop
EnterDestroy(l, k) ==
    IF k > Len(DeleteOrder(l.stand)) THEN EnterNetDelete(l)
    ELSE [l EXCEPT !.pc = "get_disks", !.k = k, !.i = 1, !.paths = << >>]

\* destroy_domain after the undefine: the disks, then the next node
AfterUndefine(l) ==
    IF Len(l.paths) > 0 THEN [l EXCEPT !.pc = "rm_disk", !.i = 1]
    ELSE EnterDestroy(l, l.k + 1)

\* one command of the delete_stand of a process, on the machine m
DeleteProcStep(l, m) ==
    LET name == DeleteOrder(l.stand)[l.k].name
    IN  CASE l.pc = "get_disks" ->
                 LET r == get_domain_disks(m, name)
                 IN  Out(l, r.m, [l EXCEPT !.pc = "is_active",
                                           !.paths = r.val])
          [] l.pc = "is_active" ->
                 LET r == is_active_domain(m, name)
                 IN  Out(l, r.m,
                         IF r.val THEN [l EXCEPT !.pc = "destroy"]
                         ELSE [l EXCEPT !.pc = "undefine"])
          [] l.pc = "destroy" ->
                 Out(l, Caught(m, VirshDestroy(m, name)),
                     [l EXCEPT !.pc = "undefine"])
          [] l.pc = "undefine" ->
                 Out(l, Caught(m, VirshUndefine(m, name)), AfterUndefine(l))
          [] l.pc = "rm_disk" ->
                 Out(l, RmForce(m, l.paths[l.i]),
                     IF l.i < Len(l.paths) THEN [l EXCEPT !.i = @ + 1]
                     ELSE EnterDestroy(l, l.k + 1))
          [] l.pc = "net_destroy" ->
                 Out(l, Caught(m, VirshNetDestroy(m, l.stand.network.name)),
                     [l EXCEPT !.pc = "net_undefine"])
          [] l.pc = "net_undefine" ->
                 Out(l, Caught(m, VirshNetUndefine(m, l.stand.network.name)),
                     Finish(l, "none"))

\* the hosts the two processes meet: the user's own, one with a baremetal
\* of stand s1 and its network, and one with the whole stand
ConcHosts ==
    << [domains |-> [n \in { "vm" } |-> UserDomain],
        nets |-> [n \in { "br0" } |-> UserNet],
        files |-> [f \in { UserDisk } |->
                      [kind |-> "empty", src |-> UserDisk, size |-> 10]]],
       [domains |-> [n \in { "vm", "n3" } |-> HostCatalogue[n]],
        nets |-> CHOOSE ns \in HostNets :
                     "net1" \in DOMAIN ns /\ ns["net1"].active,
        files |-> [f \in DiskFilesOf([n \in { "vm", "n3" } |->
                                         HostCatalogue[n]])
                      |-> [kind |-> "empty", src |-> f, size |-> 10]]],
       [domains |-> [n \in { "vm", "n1", "n3" } |-> HostCatalogue[n]],
        nets |-> CHOOSE ns \in HostNets :
                     "net1" \in DOMAIN ns /\ ns["net1"].active,
        files |-> [f \in DiskFilesOf([n \in { "vm", "n1", "n3" } |->
                                         HostCatalogue[n]])
                      |-> [kind |-> "empty", src |-> f, size |-> 10]]] >>

\* stands that share a node name, a stand name or a network
ConcStands ==
    { [name |-> "s1", network |-> Br0, bootstraps |-> << B1 >>,
       baremetals |-> << M1 >>],
      [name |-> "s2", network |-> Br0, bootstraps |-> << B2 >>,
       baremetals |-> << M1 >>],
      [name |-> "s2", network |-> Net1, bootstraps |-> << B2 >>,
       baremetals |-> << >>],
      [name |-> "s1", network |-> Net1, bootstraps |-> << B1 >>,
       baremetals |-> << >>] }

\* the locals of process p at the entry of its call, on host h
Local(p, h, name, stand) ==
    [id |-> p, host |-> h, op |-> name, stand |-> stand, pc |-> "entry",
     k |-> 1, i |-> 1, passed |-> FALSE, names |-> << >>, xmls |-> << >>,
     paths |-> << >>, err |-> "none", calls |-> << >>, ret |-> << >>]

\* the calls a process can make
ProcCalls(p, h) ==
    { EnterChecks(Local(p, h, "create_stand", stand)) : stand \in ConcStands }
    \cup { [Local(p, h, "list_stands", NoStand) EXCEPT !.pc = "list"] }
    \cup { EnterDestroy(Local(p, h, "delete_stand", HostStand), 1) }

\* the machine a process runs its next command on
MachineOf(l) ==
    [domains |-> domains, nets |-> nets, files |-> files,
     calls |-> l.calls, err |-> "none", fail |-> 0]

InitConc ==
    /\ \E h \in DOMAIN ConcHosts :
           /\ domains = ConcHosts[h].domains
           /\ nets = ConcHosts[h].nets
           /\ files = ConcHosts[h].files
           /\ procs \in [Procs -> UNION { ProcCalls(p, h) : p \in Procs }]
           /\ \A p \in Procs : procs[p] \in ProcCalls(p, h)
    /\ pc = "idle"
    /\ op = "none"
    /\ arg = NoStand
    /\ err = "none"
    /\ calls = << >>
    /\ ret = << >>

Stepped(p, r) ==
    /\ domains' = r.m.domains
    /\ nets' = r.m.nets
    /\ files' = r.m.files
    /\ procs' = [procs EXCEPT ![p] = r.l]
    /\ UNCHANGED << pc, op, arg, err, calls, ret >>

\* process p runs the next command of its create_stand
CreateStep(p) ==
    /\ procs[p].op = "create_stand"
    /\ procs[p].pc # "done"
    /\ Stepped(p, ProcStep(procs[p], MachineOf(procs[p]), << >>))

\* process p runs the next command of its list_stands
ListStandsStep(p) ==
    /\ procs[p].op = "list_stands"
    /\ procs[p].pc # "done"
    /\ \E order \in IF procs[p].pc = "list" THEN Orders(DOMAIN domains)
                    ELSE { << >> } :
           Stepped(p, ProcStep(procs[p], MachineOf(procs[p]), order))

\* process p runs the next command of its delete_stand
DeleteStep(p) ==
    /\ procs[p].op = "delete_stand"
    /\ procs[p].pc # "done"
    /\ Stepped(p, DeleteProcStep(procs[p], MachineOf(procs[p])))

NextConc ==
    \/ \E p \in Procs : CreateStep(p)
    \/ \E p \in Procs : ListStandsStep(p)
    \/ \E p \in Procs : DeleteStep(p)

SpecConc == InitConc /\ [][NextConc]_vars

RECURSIVE RunAlone(_, _)
\* the call l run to its end on the machine m with no other process
RunAlone(l, m) ==
    IF l.pc = "done" THEN [l |-> l, m |-> m]
    ELSE LET r == ProcStep(l, [m EXCEPT !.calls = l.calls], << >>)
         IN  RunAlone(r.l, r.m)

\* ------------------------------------------------------------------------
\* Properties
\* ------------------------------------------------------------------------

NodeNamesOf(stand) ==
    { Chain(stand)[i].name : i \in 1..Len(Chain(stand)) }

\* the comparison of a listed stand with the stand that was created
SameShape(listed, stand) ==
    /\ listed.name = stand.name
    /\ Len(listed.bootstraps) = Len(stand.bootstraps)
    /\ Len(listed.baremetals) = Len(stand.baremetals)
    /\ listed.network.cidr = stand.network.cidr
    /\ listed.network.dhcp = stand.network.dhcp
    /\ listed.network.managed_network = stand.network.managed_network

\* C1: after create_stand(s) has returned, list_stands() (in whatever order
\* virsh lists the domains) returns a stand with the name, the number of
\* bootstraps, the number of baremetals and the network CIDR, DHCP flag and
\* managed flag of s.
C1_RoundTrip ==
    (op = "create_stand" /\ err = "none") =>
        \A order \in Orders(DOMAIN domains) :
            LET r == list_stands(Machine, order)
            IN  /\ r.m.err = "none"
                /\ \E i \in 1..Len(r.val) : SameShape(r.val[i], arg)

\* the domains and the managed network of a stand are not on the hypervisor
Gone(stand, doms, nts) ==
    /\ NodeNamesOf(stand) \cap DOMAIN doms = {}
    /\ stand.network.managed_network => stand.network.name \notin DOMAIN nts

\* C2: a delete_stand(s) that finds the domains and the managed network of
\* s already gone, as the second of two calls in succession does, raises no
\* error.
C2_DeleteTwice ==
    [][(pc = "idle" /\ op' = "delete_stand" /\ Gone(arg', domains, nets))
          => err' = "none"]_vars

\* the domains whose descriptor has no stand-name tag
Untagged ==
    { n \in DOMAIN domains :
        _get_tag_value(domains[n].xml, GENESIS_META_STAND_TAG) = None }

ListedNames(stands) ==
    UNION { NodeNamesOf(stands[i]) : i \in 1..Len(stands) }

\* C3: list_stands puts no untagged domain into a stand, and its outcome is
\* the outcome of list_stands on the tagged domains alone.
C3_UntaggedIgnored ==
    op = "list_stands" =>
        /\ ListedNames(ret) \cap Untagged = {}
        /\ \E order \in Orders((DOMAIN domains) \ Untagged) :
               LET tagged == [n \in (DOMAIN domains) \ Untagged |->
                                 domains[n]]
                   r == list_stands([Machine EXCEPT !.domains = tagged],
                                    order)
               IN  r.m.err = err /\ r.val = ret

C3_Witness ==
    /\ op = "list_stands"
    /\ err = "none"
    /\ Untagged # {}
    /\ Len(ret) > 0

\* C4: create_stand of a stand with two or more bootstraps raises the
\* unsupported error, runs no hypervisor command and leaves the hypervisor
\* as it was.
C4_TwoBootstrapsRejected ==
    [][(op' = "create_stand" /\ Len(arg'.bootstraps) >= 2) =>
          /\ err' = "NotImplementedError"
          /\ Len(calls') = 0
          /\ UNCHANGED << domains, nets, files >>]_vars

C4_Witness ==
    /\ op = "create_stand"
    /\ Len(arg.bootstraps) = 2
    /\ err = "NotImplementedError"
    /\ DOMAIN domains # { "vm" }

\* the validity of section 3, stated on the values
ValidStand(stand) ==
    /\ stand.network.name # "dummy"
    /\ Len(stand.bootstraps) >= 1
    /\ \E i \in 1..Len(stand.bootstraps) : stand.bootstraps[i].image # None

\* C5: is_valid() is true exactly of the stands whose network is not the
\* dummy one, that have a bootstrap, and one of whose bootstraps has an
\* image; with the dummy network and one bootstrap with an image a stand is
\* invalid, and valid once the network is a managed one.
C5_IsValid ==
    op \in { "create_stand", "delete_stand" } =>
        /\ is_valid(arg) <=> ValidStand(arg)
        /\ (arg.network = Dummy /\ Len(arg.bootstraps) = 1
                /\ arg.bootstraps[1].image # None) =>
               (~is_valid(arg) /\ is_valid([arg EXCEPT !.network = Net1]))

C5_Witness ==
    /\ op = "create_stand"
    /\ arg.network = Dummy
    /\ Len(arg.bootstraps) = 1
    /\ arg.bootstraps[1].image # None
    /\ err = "ValueError: invalid"

\* C6: the descriptor of a created network has its gateway at the network
\* address + 1, with DHCP a pool from + 10 to + 100 and without DHCP no
\* pool, for every CIDR.
C6_NetworkDescriptor ==
    op = "create_nat_network" =>
        /\ err # "IndexError"
        /\ err = "none" =>
               LET xml == nets[arg.network.name].xml
                   cidr == arg.network.cidr
               IN  /\ xml.ip = IpToStr(cidr.addr + 1)
                   /\ IF arg.network.dhcp
                      THEN xml.dhcp =
                               Some([start |-> IpToStr(cidr.addr + 10),
                                     end |-> IpToStr(cidr.addr + 100)])
                      ELSE xml.dhcp = None

\* the descriptors handed to virsh define by a call, in order
Defined(cs) ==
    LET defs == SelectSeq(cs, LAMBDA c : c.cmd = "define")
    IN  [k \in 1..Len(defs) |-> defs[k].arg]

\* a command of the call created the file
CreatedBy(cs, path) ==
    \E i \in 1..Len(cs) : cs[i].cmd = "qemu-img" /\ cs[i].arg = path

\* C7: a create_stand that returns has handed virsh one descriptor per
\* node, in order.  For a node without an image the descriptor has one
\* qcow2 disk per size, at vda, vdb, ... in list order, each a file that did
\* not exist and that the call created; for a node with an image it has one
\* disk, at vda, qcow2 when the image's file name ends in qcow2 and raw
\* otherwise.  A baremetal boots network then hd, a bootstrap hd only.
C7_SynthesisByMode ==
    [][(pc = "idle" /\ op' = "create_stand" /\ err' = "none") =>
          LET nodes == Chain(arg')
              defs == Defined(calls')
          IN  /\ Len(defs) = Len(nodes)
              /\ \A k \in 1..Len(nodes) :
                     LET node == nodes[k]
                         disks == defs[k].disks
                     IN  /\ defs[k].name = node.name
                         /\ defs[k].boot =
                                IF k <= Len(arg'.bootstraps)
                                THEN << "hd" >>
                                ELSE << "network", "hd" >>
                         /\ node.image = None =>
                                /\ Len(disks) = Len(node.disks)
                                /\ \A i \in 1..Len(disks) :
                                       /\ disks[i].driver_type = "qcow2"
                                       /\ disks[i].target_dev =
                                              << "vd", Letters[i] >>
                                       /\ disks[i].source_file
                                              \notin DOMAIN files
                                       /\ CreatedBy(calls',
                                                    disks[i].source_file)
                         /\ node.image # None =>
                                /\ Len(disks) = 1
                                /\ disks[1].target_dev = << "vd", "a" >>
                                /\ disks[1].driver_type =
                                       IF node.image[1].file[
                                              Len(node.image[1].file)]
                                              = "qcow2"
                                       THEN "qcow2"
                                       ELSE "raw"]_vars

C7_Witness ==
    /\ op = "create_stand"
    /\ err = "none"
    /\ arg.bootstraps = << B1 >>
    /\ arg.baremetals = << M1, M2 >>
    /\ { "n1", "n2", "n3" } \subseteq DOMAIN domains

\* C8: create_stand of an invalid stand, or of a stand one of whose node
\* names is a domain of the hypervisor, raises an error and has run no
\* command that changes the hypervisor: domains, networks and files are as
\* they were.
C8_RejectedBeforeMutation ==
    [][(pc = "idle" /\ op' = "create_stand"
          /\ (~ValidStand(arg')
                \/ NodeNamesOf(arg') \cap DOMAIN domains # {})) =>
          /\ err' # "none"
          /\ Commands(calls') \cap Mutating = {}
          /\ UNCHANGED << domains, nets, files >>]_vars

C8_Witness ==
    /\ op = "create_stand"
    /\ ValidStand(arg)
    /\ Len(arg.bootstraps) = 1
    /\ err = "ValueError: domain exists"
    /\ arg.network.name \notin DOMAIN nets
    /\ Len(calls) > 0

\* C9: create_stand of a valid stand with one bootstrap, none of whose node
\* names exists, whose network is managed and already defined on the
\* hypervisor, raises the conflict error of the network check and has run
\* no command that changes the hypervisor, net-define included.
C9_NetworkConflictRejected ==
    [][(pc = "idle" /\ op' = "create_stand"
          /\ ValidStand(arg') /\ ~TooManyBootstraps(arg')
          /\ NodeNamesOf(arg') \cap DOMAIN domains = {}
          /\ arg'.network.managed_network
          /\ arg'.network.name \in DOMAIN nets) =>
          /\ err' = "ValueError: network exists"
          /\ Commands(calls') \cap Mutating = {}]_vars

\* the networks that differ between two hypervisor states
ChangedNets(before, after) ==
    { n \in (DOMAIN before) \cup (DOMAIN after) :
        \/ n \notin DOMAIN before
        \/ n \notin DOMAIN after
        \/ before[n] # after[n] }

\* C10: an operation of the driver changes no network but the network of
\* its stand, and that one only when the stand's managed flag is true; for
\* a stand whose flag is false, delete_stand and create_stand run no network
\* command at all.
C10_ExternalNetworkUntouched ==
    [][pc = "idle" =>
          /\ \A n \in ChangedNets(nets, nets') :
                 /\ op' \in { "create_stand", "delete_stand" }
                 /\ arg'.network.name = n
                 /\ arg'.network.managed_network
          /\ ~arg'.network.managed_network =>
                 /\ Commands(calls') \cap NetCommands = {}
                 /\ nets' = nets]_vars

C10_Witness ==
    /\ op = "delete_stand"
    /\ err = "none"
    /\ arg.network = Br0
    /\ "undefine" \in Commands(calls)
    /\ "br0" \in DOMAIN nets
    /\ nets["br0"] = UserNet

\* the commands that only read the hypervisor
ReadOnly == { "list", "dumpxml" }

\* C11: list_stands runs only list and dump commands and leaves domains,
\* networks and files as they were, and a second list_stands on the
\* hypervisor it leaves behind (virsh listing the names in the same order)
\* ends the same way with the same stands.
C11_ListReadOnlyIdempotent ==
    [][(pc = "idle" /\ op' = "list_stands") =>
          /\ Commands(calls') \subseteq ReadOnly
          /\ UNCHANGED << domains, nets, files >>
          /\ \E order \in Orders(DOMAIN domains') :
                 LET first == list_stands(Machine, order)
                     second == list_stands(
                                   [first.m EXCEPT !.calls = << >>,
                                                   !.err = "none"], order)
                 IN  /\ first.val = ret' /\ first.m.err = err'
                     /\ second.val = ret' /\ second.m.err = err'
                     /\ second.m.domains = domains]_vars

C11_Witness ==
    /\ op = "list_stands"
    /\ err = "none"
    /\ Len(ret) = 2
    /\ \E i \in 1..2 : Len(ret[i].baremetals) > 0

\* the domains with a stand-name tag whose node-type tag is missing or is
\* neither bootstrap nor baremetal
Misclassified ==
    { n \in (DOMAIN domains) \ Untagged :
        _get_tag_value(domains[n].xml, GENESIS_META_NODE_TYPE_TAG)
            \notin { Some("bootstrap"), Some("baremetal") } }

\* C12: on a host with a tagged domain of an unknown or missing node type,
\* list_stands fails with the classification error and returns no stands;
\* no list_stands puts such a domain into a stand.
C12_UnknownNodeTypeFatal ==
    op = "list_stands" =>
        /\ ListedNames(ret) \cap Misclassified = {}
        /\ Misclassified # {} =>
               (err = "NotImplementedError" /\ ret = << >>)

C12_Witness ==
    /\ op = "list_stands"
    /\ err = "NotImplementedError"
    /\ "p2" \in Misclassified
    /\ "p1" \notin DOMAIN domains
    /\ { "n1", "n3" } \subseteq DOMAIN domains

\* C13: destroy_domain of a domain that is stopped, or that is not defined,
\* raises no error, and destroy_net of a network that is not defined
\* raises no error.
C13_DestroyIdempotent ==
    [][/\ (pc = "idle" /\ op' = "destroy_domain"
              /\ (arg'.name \notin DOMAIN domains
                    \/ ~domains[arg'.name].active)) => err' = "none"
       /\ (pc = "idle" /\ op' = "destroy_net"
              /\ arg'.network.name \notin DOMAIN nets) => err' = "none"]_vars

\* the commands of a call that exited non-zero
FailedCalls(cs) == { i \in 1..Len(cs) : cs[i].rc = 1 }

\* C14: a create_stand one of whose commands exited non-zero ends with the
\* error of that command, and that command is the last one it ran.
C14_FailureSurfaced ==
    (op = "create_stand" /\ FailedCalls(calls) # {}) =>
        /\ err = "CalledProcessError"
        /\ FailedCalls(calls) = { Len(calls) }

\* C15: when the allocation of a disk fails in create_domain, the call ends
\* with an error and none of the disk files it allocated before is left.
C15_DisksRemovedOnFailure ==
    op = "create_domain" =>
        \A k \in FailedCalls(calls) :
            calls[k].cmd = "qemu-img" =>
                /\ err # "none"
                /\ \A j \in 1..(k - 1) :
                       calls[j].cmd = "qemu-img" =>
                           calls[j].arg \notin DOMAIN files

\* a node of the list is the node given
Rebuilt(nodes, node) == \E j \in 1..Len(nodes) : nodes[j] = node

\* C16: after create_stand(s) has returned, list_stands returns a stand of
\* the name of s that has, for every bootstrap of s, a bootstrap with the
\* same name, cores, memory, image and disks, and the same for every
\* baremetal.
C16_NodesRebuilt ==
    (op = "create_stand" /\ err = "none") =>
        \A order \in Orders(DOMAIN domains) :
            LET r == list_stands(Machine, order)
            IN  /\ r.m.err = "none"
                /\ \E i \in 1..Len(r.val) :
                       /\ r.val[i].name = arg.name
                       /\ \A k \in 1..Len(arg.bootstraps) :
                              Rebuilt(r.val[i].bootstraps, arg.bootstraps[k])
                       /\ \A k \in 1..Len(arg.baremetals) :
                              Rebuilt(r.val[i].baremetals, arg.baremetals[k])

\* the descriptor has an element of the tag
HasTag(xml, tag) == Len(getElementsByTagName(xml, tag)) > 0

\* C17: every descriptor create_stand hands to virsh define has the tags of
\* the stand name, the node type of its role, the vCPU count, the memory
\* and the image; it has the network tag, with the cidr, managed_network
\* and dhcp attributes, exactly when it is a bootstrap.
C17_MetadataTags ==
    (op = "create_stand" /\ err = "none") =>
        LET defs == Defined(calls)
        IN  \A k \in 1..Len(defs) :
                LET role == IF k <= Len(arg.bootstraps) THEN "bootstrap"
                            ELSE "baremetal"
                    nets_ == getElementsByTagName(defs[k],
                                                  GENESIS_META_NET_TAG)
                IN  /\ _get_tag_value(defs[k], GENESIS_META_STAND_TAG)
                           = Some(arg.name)
                    /\ _get_tag_value(defs[k], GENESIS_META_NODE_TYPE_TAG)
                           = Some(role)
                    /\ HasTag(defs[k], GENESIS_META_CPU_TAG)
                    /\ HasTag(defs[k], GENESIS_META_MEM_TAG)
                    /\ HasTag(defs[k], GENESIS_META_IMAGE_TAG)
                    /\ IF role = "bootstrap"
                       THEN /\ Len(nets_) = 1
                            /\ nets_[1].text = Some(arg.network.name)
                            /\ DOMAIN nets_[1].attrs =
                                   { "cidr", "managed_network", "dhcp" }
                       ELSE Len(nets_) = 0

\* C20: the credentials check accepts the key and the IV exactly when both
\* are set and each is at least 6 and at most 16 long.
C20_CredsAccepted ==
    op = "bakcup_cmd" =>
        (err = "none" <=>
            /\ arg.key # None /\ arg.iv # None
            /\ 6 <= Len(arg.key[1]) /\ Len(arg.key[1]) <= 16
            /\ 6 <= Len(arg.iv[1]) /\ Len(arg.iv[1]) <= 16)

\* the host h before any process has run a command
HostMachine(h) ==
    [domains |-> ConcHosts[h].domains, nets |-> ConcHosts[h].nets,
     files |-> ConcHosts[h].files, calls |-> << >>, err |-> "none",
     fail |-> 0]

\* the create_stand of l run alone on its host
Alone(l) ==
    RunAlone(EnterChecks(Local(l.id, l.host, "create_stand", l.stand)),
             HostMachine(l.host))

\* C19: list_stands beside create_stand.  With list_stands in process p and
\* create_stand in process q, at every step of every interleaving: a step of
\* p leaves the domains, the networks and the files as they were; p has
\* raised nothing, and its call has returned once it is done; and when q is
\* done it has raised, run and left on the hypervisor exactly what its
\* create_stand does alone on the same host.
C19_ListBesideCreate ==
    [][\A p, q \in Procs :
           (procs[p].op = "list_stands" /\ procs[q].op = "create_stand")
           => /\ procs'[p] # procs[p]
                     => UNCHANGED << domains, nets, files >>
              /\ procs'[p].err = "none"
              /\ procs'[q].pc = "done"
                     => /\ procs'[q].err = Alone(procs[q]).l.err
                        /\ procs'[q].calls = Alone(procs[q]).l.calls
                        /\ domains' = Alone(procs[q]).m.domains
                        /\ nets' = Alone(procs[q]).m.nets
                        /\ files' = Alone(procs[q]).m.files]_vars

\* C19 witness: both calls have returned, create_stand has defined a bootstrap
\* and a baremetal, and list_stands ran between its commands: it returned the
\* stand with the bootstrap and without the baremetal
C19_Witness ==
    \E p, q \in Procs :
        /\ procs[p].op = "list_stands" /\ procs[p].pc = "done"
        /\ procs[q].op = "create_stand" /\ procs[q].pc = "done"
        /\ procs[q].err = "none"
        /\ \A node \in { Chain(procs[q].stand)[k] :
                         k \in 1..Len(Chain(procs[q].stand)) } :
               node.name \in DOMAIN domains
        /\ Len(procs[q].stand.baremetals) > 0
        /\ \E k \in 1..Len(procs[p].ret) :
               /\ procs[p].ret[k].name = procs[q].stand.name
               /\ Len(procs[p].ret[k].bootstraps) = 1
               /\ Len(procs[p].ret[k].baremetals) = 0

\* the names a call has defined: its define commands that exited with 0
DefinedBy(l) ==
    { l.calls[k].arg.name :
        k \in { j \in 1..Len(l.calls) :
                  l.calls[j].cmd = "define" /\ l.calls[j].rc = 0 } }

\* C18: two concurrent create_stand calls are not coordinated.  The only
\* thing between them is virsh define: when both calls have passed the checks
\* of create_stand although their stands share a node name, and both have
\* returned, no shared name was defined by both, so one of the two stands is
\* on the hypervisor without a node of its own.
C18_OneDefineWins ==
    \A p, q \in Procs :
        ( /\ p # q
          /\ procs[p].op = "create_stand" /\ procs[q].op = "create_stand"
          /\ procs[p].passed /\ procs[q].passed
          /\ procs[p].pc = "done" /\ procs[q].pc = "done"
          /\ NodeNamesOf(procs[p].stand) \cap NodeNamesOf(procs[q].stand)
                 # {} )
        => /\ DefinedBy(procs[p]) \cap DefinedBy(procs[q]) = {}
           /\ \/ ~(NodeNamesOf(procs[p].stand) \subseteq DefinedBy(procs[p]))
              \/ ~(NodeNamesOf(procs[q].stand) \subseteq DefinedBy(procs[q]))

\* C18 witness: both calls passed the checks and returned without an
\* exception; the stand of q is half-created: one of its nodes is a domain
\* with its tag, another of its names is a domain of the stand of p
C18_Witness ==
    \E p, q \in Procs :
        /\ p # q
        /\ procs[p].op = "create_stand" /\ procs[q].op = "create_stand"
        /\ procs[p].passed /\ procs[q].passed
        /\ procs[p].pc = "done" /\ procs[q].pc = "done"
        /\ procs[p].err = "none" /\ procs[q].err = "none"
        /\ procs[p].stand.name # procs[q].stand.name
        /\ \E n \in NodeNamesOf(procs[q].stand) \cap DefinedBy(procs[q]) :
               /\ n \in DOMAIN domains
               /\ _get_tag_value(domains[n].xml, GENESIS_META_STAND_TAG)
                      = Some(procs[q].stand.name)
        /\ \E n \in NodeNamesOf(procs[q].stand) \ DefinedBy(procs[q]) :
               /\ n \in DefinedBy(procs[p])
               /\ _get_tag_value(domains[n].xml, GENESIS_META_STAND_TAG)
                      = Some(procs[p].stand.name)

\* the commands create_domain runs
DomainCommands == { "rm", "cp", "qemu-img", "define", "start" }

\* the k-th command of cs hands virsh the descriptor of a node of this type
DefinesType(cs, k, type) ==
    /\ cs[k].cmd = "define"
    /\ _get_tag_value(cs[k].arg, GENESIS_META_NODE_TYPE_TAG) = Some(type)

\* C23: the order of the commands of create_stand.  With a managed network
\* the first three commands after the checks are net-define, net-start and
\* net-autostart of that network, all of them successful, and they come
\* before every command of create_domain; with another network no net-*
\* command is run at all.  The define of a bootstrap comes before the define
\* of every baremetal, and when it succeeded its start is the next command.
C23_FixedOrder ==
    op = "create_stand" =>
        /\ ~arg.network.managed_network
               => Commands(calls) \cap (NetCommands \cup { "net-list" }) = {}
        /\ \A j \in 1..Len(calls) :
               (arg.network.managed_network
                    /\ calls[j].cmd \in DomainCommands)
               => \E i \in 1..(j - 3) :
                      /\ calls[i].cmd = "net-define"
                      /\ calls[i + 1].cmd = "net-start"
                      /\ calls[i + 2].cmd = "net-autostart"
                      /\ \A k \in i..(i + 2) :
                             /\ calls[k].arg = arg.network.name
                             /\ calls[k].rc = 0
                      /\ \A k \in 1..i : calls[k].cmd \notin DomainCommands
        /\ \A i, j \in 1..Len(calls) :
               (DefinesType(calls, i, "bootstrap")
                    /\ DefinesType(calls, j, "baremetal"))
               => /\ i < j
                  /\ calls[i].rc = 0
                         => /\ i + 1 < j
                            /\ calls[i + 1].cmd = "start"
                            /\ calls[i + 1].arg = calls[i].arg.name

\* C23 witness: a stand on a managed network with a bootstrap and a
\* baremetal has been created, all three kinds of command were run
C23_Witness ==
    /\ op = "create_stand" /\ err = "none"
    /\ arg.network.managed_network
    /\ "net-autostart" \in Commands(calls)
    /\ \E i, j \in 1..Len(calls) :
           /\ DefinesType(calls, i, "bootstrap") /\ calls[i].rc = 0
           /\ DefinesType(calls, j, "baremetal") /\ calls[j].rc = 0

\* C24: delete_stand destroys the domains before the network.  Every
\* net-destroy and net-undefine of a delete_stand is for the managed network
\* of the stand, comes after destroy_domain has been entered for every node
\* of the stand, and is followed by network commands only; once one has run,
\* no domain with the name of a node of the stand is left.  Nothing after
\* the first network command touches a domain, so a domain that exists with
\* the network torn down would still exist when the call returns.
C24_DomainsBeforeNetwork ==
    op = "delete_stand" =>
        \A j \in 1..Len(calls) :
            calls[j].cmd \in { "net-destroy", "net-undefine" }
            => /\ arg.network.managed_network
               /\ calls[j].arg = arg.network.name
               /\ \A n \in NodeNamesOf(arg) :
                      /\ \E i \in 1..(j - 1) :
                             calls[i].cmd = "dumpxml" /\ calls[i].arg = n
                      /\ n \notin DOMAIN domains
               /\ \A i \in j..Len(calls) : calls[i].cmd \in NetCommands

\* C24 witness: delete_stand has undefined a bootstrap, a baremetal and then
\* the managed network of the stand
C24_Witness ==
    /\ op = "delete_stand" /\ err = "none"
    /\ Len(arg.bootstraps) > 0 /\ Len(arg.baremetals) > 0
    /\ \A n \in NodeNamesOf(arg) :
           \E i \in 1..Len(calls) :
               calls[i].cmd = "undefine" /\ calls[i].arg = n
                   /\ calls[i].rc = 0
    /\ \E j \in 1..Len(calls) :
           calls[j].cmd = "net-undefine" /\ calls[j].rc = 0

\* the baremetals of a stand with neither an image nor a disk
Diskless(stand) ==
    { k \in 1..Len(stand.baremetals) :
        stand.baremetals[k].image = None
            /\ Len(stand.baremetals[k].disks) = 0 }

\* the call defined a domain of this name
DefinedName(cs, n) ==
    \E i \in 1..Len(cs) :
        cs[i].cmd = "define" /\ cs[i].arg.name = n /\ cs[i].rc = 0

\* C27: a baremetal with neither an image nor a disk passes the checks of
\* create_stand.  A create_stand of a valid stand with one bootstrap and
\* such a baremetal, that met no existing domain and no failing command,
\* raises the usage error of create_domain; by then it has set up the
\* managed network, defined the bootstrap and every baremetal before the
\* first such node and none after it, and it has undone nothing: network
\* and domains are on the hypervisor when it has raised.
C27_DisklessNodeCaughtLate ==
    ( /\ op = "create_stand"
      /\ ValidStand(arg) /\ Len(arg.bootstraps) = 1
      /\ Diskless(arg) # {}
      /\ err \notin { "ValueError: domain exists",
                      "ValueError: network exists", "CalledProcessError",
                      "IndexError" } )
    => LET first == CHOOSE k \in Diskless(arg) :
                        \A j \in Diskless(arg) : k <= j
       IN  /\ err = "ValueError: image or disks"
           /\ arg.network.managed_network
                  => /\ arg.network.name \in DOMAIN nets
                     /\ \E i \in 1..Len(calls) :
                            /\ calls[i].cmd = "net-autostart"
                            /\ calls[i].rc = 0
           /\ \A b \in 1..Len(arg.bootstraps) :
                  /\ DefinedName(calls, arg.bootstraps[b].name)
                  /\ arg.bootstraps[b].name \in DOMAIN domains
           /\ \A k \in 1..(first - 1) :
                  /\ DefinedName(calls, arg.baremetals[k].name)
                  /\ arg.baremetals[k].name \in DOMAIN domains
           /\ Len(Defined(calls)) = Len(arg.bootstraps) + first - 1
           /\ Commands(calls)
                  \cap { "destroy", "undefine", "net-destroy",
                         "net-undefine" } = {}

\* C27 witness: create_stand has raised the usage error at the second
\* baremetal of a stand on a managed network, with the network, the
\* bootstrap and the first baremetal in place
C27_Witness ==
    /\ op = "create_stand" /\ err = "ValueError: image or disks"
    /\ arg.network.managed_network
    /\ arg.network.name \in DOMAIN nets
    /\ Len(arg.baremetals) = 2 /\ Diskless(arg) = { 2 }
    /\ arg.bootstraps[1].name \in DOMAIN domains
    /\ arg.baremetals[1].name \in DOMAIN domains
    /\ DefinedName(calls, arg.baremetals[1].name)

\* the bootstrap domains of the hypervisor that carry the stand name
BootstrapsOf(name) ==
    { n \in DOMAIN domains :
        /\ _get_tag_value(domains[n].xml, GENESIS_META_STAND_TAG) = Some(name)
        /\ _get_tag_value(domains[n].xml, GENESIS_META_NODE_TYPE_TAG)
               = Some("bootstrap") }

\* the network tag of the bootstrap of the stand name that was dumped last
LastNetOf(cs, name) ==
    LET at == { i \in 1..Len(cs) :
                  cs[i].cmd = "dumpxml" /\ cs[i].arg \in BootstrapsOf(name) }
        last == CHOOSE i \in at : \A j \in at : j <= i
    IN  _extract_net_from_bootstrap(domains[cs[last].arg].xml).val[1]

\* C25: the stand name is not among the checks of create_stand, and
\* list_stands groups by it.  A create_stand is refused for an existing
\* domain only when a node name of the stand is a domain of the hypervisor.
\* A list_stands that returns has one stand per name; that stand holds every
\* bootstrap domain tagged with the name, however many calls created them,
\* and one network, that of the bootstrap dumped last.
C25_StandNameUnchecked ==
    /\ (op = "create_stand" /\ err = "ValueError: domain exists")
           => NodeNamesOf(arg) \cap DOMAIN domains # {}
    /\ (op = "list_stands" /\ err = "none")
           => /\ \A i, j \in 1..Len(ret) :
                     ret[i].name = ret[j].name => i = j
              /\ \A i \in 1..Len(ret) :
                     /\ { ret[i].bootstraps[k].name :
                            k \in 1..Len(ret[i].bootstraps) }
                            = BootstrapsOf(ret[i].name)
                     /\ Len(ret[i].bootstraps)
                            = Cardinality(BootstrapsOf(ret[i].name))
                     /\ BootstrapsOf(ret[i].name) # {}
                            => ret[i].network = LastNetOf(calls, ret[i].name)

\* C25 witness: list_stands has returned one stand with two bootstraps that
\* were created on two networks
C25_Witness ==
    /\ op = "list_stands" /\ err = "none"
    /\ \E i \in 1..Len(ret) :
           /\ Len(ret[i].bootstraps) = 2
           /\ \E a, b \in BootstrapsOf(ret[i].name) :
                  /\ _extract_net_from_bootstrap(domains[a].xml).val[1].name
                         # _extract_net_from_bootstrap(domains[b].xml)
                               .val[1].name
                  /\ ret[i].network.name
                         = _extract_net_from_bootstrap(domains[b].xml)
                               .val[1].name

\* the disk files the descriptors of a set of domains name
DisksOfDomains(names) ==
    UNION { { domains[n].xml.disks[k].source_file :
                k \in 1..Len(domains[n].xml.disks) } : n \in names }

\* C26: stands are isolated.  A create_stand or delete_stand of the stand s
\* leaves every domain that is not named in s as it was, leaves the disk
\* files of those domains as they were, and leaves every network as it was
\* except the managed network of s.
C26_StandsIsolated ==
    [][(pc = "idle" /\ op' \in { "create_stand", "delete_stand" })
       => LET others == (DOMAIN domains) \ NodeNamesOf(arg')
          IN  /\ \A n \in others :
                     n \in DOMAIN domains' /\ domains'[n] = domains[n]
              /\ \A f \in DisksOfDomains(others) \cap DOMAIN files :
                     f \in DOMAIN files' /\ files'[f] = files[f]
              /\ \A x \in DOMAIN nets :
                     (x = arg'.network.name /\ arg'.network.managed_network)
                         \/ (x \in DOMAIN nets' /\ nets'[x] = nets[x])]_vars

\* the names of the nodes of a listed stand
ListedNodes(stand) ==
    { stand.bootstraps[k].name : k \in 1..Len(stand.bootstraps) }
        \cup { stand.baremetals[k].name : k \in 1..Len(stand.baremetals) }

\* C28: list_stands beside delete_stand.  With list_stands in process p and
\* delete_stand in process q, a list_stands that is done has either raised
\* the error of a dumpxml, its last command, for a node of the deleted stand
\* whose name virsh list had printed, or it has returned; what it returns of
\* the deleted stand is cut from the front of the order of delete_stand: a
\* stand listed without a bootstrap has the dummy network, and a stand
\* listed with its bootstrap has its baremetals too.
C28_ListBesideDelete ==
    \A p, q \in Procs :
        ( /\ procs[p].op = "list_stands" /\ procs[p].pc = "done"
          /\ procs[q].op = "delete_stand" )
        => LET l == procs[p]
               last == l.calls[Len(l.calls)]
           IN  /\ l.err \in { "none", "CalledProcessError" }
               /\ l.err = "CalledProcessError"
                      => /\ last.cmd = "dumpxml" /\ last.rc = 1
                         /\ last.arg \in NodeNamesOf(procs[q].stand)
                         /\ \E k \in 1..Len(l.names) : l.names[k] = last.arg
                         /\ l.ret = << >>
               /\ l.err = "none"
                      => \A k \in 1..Len(l.ret) :
                             l.ret[k].name = procs[q].stand.name
                             => /\ Len(l.ret[k].bootstraps) = 0
                                       => l.ret[k].network = Dummy
                                /\ Len(l.ret[k].bootstraps) > 0
                                       => ListedNodes(l.ret[k])
                                              = NodeNamesOf(procs[q].stand)

\* C28 witness: delete_stand has undefined the bootstrap and the baremetal
\* of the stand, and the list_stands beside it returned the stand with the
\* baremetal, without a bootstrap and with the dummy network
C28_Witness ==
    \E p, q \in Procs :
        /\ procs[p].op = "list_stands" /\ procs[p].pc = "done"
        /\ procs[p].err = "none"
        /\ procs[q].op = "delete_stand" /\ procs[q].pc = "done"
        /\ procs[q].err = "none"
        /\ \A n \in NodeNamesOf(procs[q].stand) :
               \E i \in 1..Len(procs[q].calls) :
                   /\ procs[q].calls[i].cmd = "undefine"
                   /\ procs[q].calls[i].arg = n
                   /\ procs[q].calls[i].rc = 0
        /\ \E k \in 1..Len(procs[p].ret) :
               /\ procs[p].ret[k].name = procs[q].stand.name
               /\ Len(procs[p].ret[k].bootstraps) = 0
               /\ Len(procs[p].ret[k].baremetals) = 1
               /\ procs[p].ret[k].network = Dummy

\* list_stands reported a stand of this name to the command
Reported(name) == \E k \in 1..Len(ret) : ret[k].name = name

\* the domains of the hypervisor tagged with the stand name
TaggedWith(name) ==
    { n \in DOMAIN domains :
        _get_tag_value(domains[n].xml, GENESIS_META_STAND_TAG) = Some(name) }

\* C29: the bootstrap command does not create a stand on top of one of the
\* same name.  Without --force and with a stand of the name reported by
\* list_stands it runs no mutating command.  With --force no command of
\* delete_stand comes after a command with which create_stand sets
\* something up, and when the command has returned every domain tagged with
\* the name is a node of the new stand, defined by this command.  The delete
\* command runs no mutating command when no reported stand has the name.
C29_NoStandOnTop ==
    /\ (op = "bootstrap" /\ Reported(arg.name))
           => Commands(calls) \cap Mutating = {}
    /\ op = "bootstrap --force"
           => /\ \A i, j \in 1..Len(calls) :
                     ( /\ calls[i].cmd \in { "net-define", "net-start",
                                             "net-autostart", "cp",
                                             "qemu-img", "define", "start" }
                       /\ calls[j].cmd \in { "destroy", "undefine",
                                             "net-destroy", "net-undefine" } )
                     => j < i
              /\ (err = "none" /\ is_valid(arg))
                     => \A n \in TaggedWith(arg.name) :
                            /\ n \in NodeNamesOf(arg)
                            /\ DefinedName(calls, n)
    /\ (op = "delete" /\ ~Reported(arg.name))
           => Commands(calls) \cap Mutating = {}

\* C29 witness: bootstrap --force has met a stand of the name, destroyed its
\* domains and then created the new stand
C29_Witness ==
    /\ op = "bootstrap --force" /\ err = "none"
    /\ Reported(arg.name)
    /\ \E i, j \in 1..Len(calls) :
           /\ i < j
           /\ calls[i].cmd = "undefine" /\ calls[i].rc = 0
           /\ calls[j].cmd = "define" /\ calls[j].rc = 0
    /\ TaggedWith(arg.name) = NodeNamesOf(arg)

\* the entries of a directory whose names match the pattern
Matching(dir) == { i \in DOMAIN dir : PatternMatch(dir[i].name) }

\* C21: rotate keeps the newest backups.  After rotate(backups_dir, n) with
\* n > 0 the matching entries that remain are at most n and are those that
\* were created last: every matching entry that is gone was created before
\* every one that is kept, and none is gone while fewer than n would remain.
\* The entries that do not match are as they were, and with n = 0 the
\* directory is as it was.
C21_RotateKeepsNewest ==
    [][op' = "rotate"
       => /\ arg' = 0 => files' = files
          /\ arg' > 0
                 => /\ Cardinality(Matching(files')) <= arg'
                    /\ Cardinality(Matching(files'))
                           = IF Cardinality(Matching(files)) < arg'
                             THEN Cardinality(Matching(files)) ELSE arg'
                    /\ \A gone \in Matching(files) \ DOMAIN files' :
                           \A kept \in Matching(files') : gone < kept
          /\ \A i \in (DOMAIN files) \ Matching(files) :
                 i \in DOMAIN files' /\ files'[i] = files[i]
          /\ \A i \in DOMAIN files' : files'[i] = files[i]]_vars

\* the path is one of the excluded entries or lies below one
Excluded(rel, exclude) ==
    \E k \in 1..Len(exclude) : IsPrefix(exclude[k], rel)

\* C22: a fetch of a source directory with an exclude list copies the
\* directory without the excluded paths.  Every file of the source that is
\* an excluded entry, or lies below one, the entry being given relative to
\* the source root, is absent from the copy; every other file, one with the
\* name of an excluded entry at another level among them, is in the copy
\* with its content.
C22_ExcludeHonoured ==
    (op = "fetch" /\ IsDir(files, arg.path.src))
    => \A f \in DOMAIN files :
           IsPrefix(arg.path.src, f)
           => LET rel == SubSeq(f, Len(arg.path.src) + 1, Len(f))
                  copied == ret[1] \o rel
              IN  IF Excluded(rel, arg.exclude)
                  THEN copied \notin DOMAIN files
                  ELSE copied \in DOMAIN files /\ files[copied] = files[f]

=============================================================================
